---------------------------- MODULE Spec2Model ----------------------------
(***************************************************************************)
(* A model of the branching-narrative engine of webGal/src/core:           *)
(*   DAG.ts         the graph container (nodeMap / outgoing / incoming),   *)
(*   GalPlayDAG.ts  the playback engine built on one DAG instance.         *)
(*                                                                         *)
(* JavaScript Map and Set objects iterate in insertion order, and the      *)
(* code's results (topologicalSort, roots, edges) depend on that order, so *)
(* a Map is modelled as a sequence of entries [k, v] and a Set as a        *)
(* sequence without repetition.                                            *)
(***************************************************************************)
EXTENDS Integers, Sequences, FiniteSets, TLC

VARIABLES
  dag,          \* the DAG instance: [nodeMap, outgoing, incoming]
  state,        \* GalPlayDAG.state, the runtime GameState
  characters,   \* GalPlayDAG.characters
  variableDefs, \* GalPlayDAG.variableDefs
  playing,      \* GalPlayDAG.playing
  paused,       \* GalPlayDAG.paused
  ended,        \* GalPlayDAG.ended
  now,          \* the clock Date.now() reads
  call,         \* the public call made by the last step: method, argument, threw
  returned,     \* what that call returned: <<>> for nothing, else <<value>>
  events,       \* the events the last call emitted, in order
  cmdLog,       \* the command events emitted since the current visit began
  visitStart,   \* the cursor at which the current visit began
  request,      \* the choice-request emitted in the current visit, if any
  listeners,    \* GalPlayDAG.listeners: per event kind, the callbacks in insertion order
  delivered,    \* the callbacks the last call invoked, in order, each with its payload
  loader        \* the ImageLoader: cache, pending, the loads started, the get calls made

\* ------------------------------------------------------------------------
\* Inputs and bounds of the model
\* ------------------------------------------------------------------------

\* node identifiers the graph operations draw from
Keys == {"A", "B", "C"}

\* payloads stored with a node by the graph operations
Values == {"v1", "v2"}

\* the clock advances at most this far
MaxNow == 1

\* selectChoice is called with the indices -1 .. MaxChoiceIndex
MaxChoiceIndex == 3

\* ------------------------------------------------------------------------
\* JavaScript Map / Set, in insertion order
\* ------------------------------------------------------------------------

SeqToSet(s) == {s[i] : i \in 1..Len(s)}

MapHas(m, k) == \E i \in 1..Len(m) : m[i].k = k

MapGet(m, k) == m[CHOOSE i \in 1..Len(m) : m[i].k = k].v

\* Map.set: an existing key keeps its place, a new key goes last
MapSet(m, k, v) ==
  IF MapHas(m, k)
    THEN [i \in 1..Len(m) |-> IF m[i].k = k THEN [k |-> k, v |-> v] ELSE m[i]]
    ELSE Append(m, [k |-> k, v |-> v])

MapDelete(m, k) == SelectSeq(m, LAMBDA e : e.k # k)

MapKeys(m) == [i \in 1..Len(m) |-> m[i].k]

SetHas(s, x) == \E i \in 1..Len(s) : s[i] = x

SetAdd(s, x) == IF SetHas(s, x) THEN s ELSE Append(s, x)

SetDelete(s, x) == SelectSeq(s, LAMBDA y : y # x)

\* ------------------------------------------------------------------------
\* DAG.ts
\* ------------------------------------------------------------------------

\* the three private tables of a new DAG
EmptyDAG == [nodeMap |-> <<>>, outgoing |-> <<>>, incoming |-> <<>>]

\* outcome of a DAG method: the graph afterwards, and whether it threw a
\* DAGError and with which message
Returned(g) == [g |-> g, threw |-> FALSE, message |-> ""]

Thrown(g, message) == [g |-> g, threw |-> TRUE, message |-> message]

hasNode(g, id) == MapHas(g.nodeMap, id)

\* the ?.-guarded reads of an adjacency table
Targets(adj, id) == IF MapHas(adj, id) THEN MapGet(adj, id) ELSE <<>>

hasEdge(g, from, to) == MapHas(g.outgoing, from) /\ SetHas(MapGet(g.outgoing, from), to)

addNode(g, id, value) ==
  IF MapHas(g.nodeMap, id)
    THEN Thrown(g, "Node already exists")
    ELSE Returned([nodeMap  |-> MapSet(g.nodeMap, id, value),
                   outgoing |-> MapSet(g.outgoing, id, <<>>),
                   incoming |-> MapSet(g.incoming, id, <<>>)])

\* upsertNode as it would be if it gave the node new adjacency sets each time
upsertNodeResetting(g, id, value) ==
  Returned([nodeMap  |-> MapSet(g.nodeMap, id, value),
            outgoing |-> MapSet(g.outgoing, id, <<>>),
            incoming |-> MapSet(g.incoming, id, <<>>)])

upsertNode(g, id, value) ==
  LET fresh == ~MapHas(g.nodeMap, id)
  IN  Returned([nodeMap  |-> MapSet(g.nodeMap, id, value),
                outgoing |-> IF fresh THEN MapSet(g.outgoing, id, <<>>) ELSE g.outgoing,
                incoming |-> IF fresh THEN MapSet(g.incoming, id, <<>>) ELSE g.incoming])

setNodeValue(g, id, value) ==
  IF ~MapHas(g.nodeMap, id)
    THEN Thrown(g, "Node does not exist")
    ELSE Returned([g EXCEPT !.nodeMap = MapSet(g.nodeMap, id, value)])

\* adj with x deleted from the set of every key listed in ks (keys without an
\* entry are skipped, as by ?.)
RECURSIVE DeleteFromEach(_, _, _)
DeleteFromEach(adj, ks, x) ==
  IF ks = <<>> THEN adj
  ELSE LET k == Head(ks)
           a == IF MapHas(adj, k) THEN MapSet(adj, k, SetDelete(MapGet(adj, k), x))
                                  ELSE adj
       IN  DeleteFromEach(a, Tail(ks), x)

\* removeNode as it would be if it left the parents' outgoing sets alone
removeNodeKeepingParents(g, id) ==
  IF ~MapHas(g.nodeMap, id)
    THEN g
    ELSE LET children == Targets(g.outgoing, id)
             inc1     == DeleteFromEach(g.incoming, children, id)
         IN  [nodeMap  |-> MapDelete(g.nodeMap, id),
              outgoing |-> MapDelete(g.outgoing, id),
              incoming |-> MapDelete(inc1, id)]

\* removeNode returns whether the node existed; it never throws
removeNode(g, id) ==
  IF ~MapHas(g.nodeMap, id)
    THEN g
    ELSE LET parents  == Targets(g.incoming, id)
             out1     == DeleteFromEach(g.outgoing, parents, id)
             children == Targets(out1, id)
             inc1     == DeleteFromEach(g.incoming, children, id)
         IN  [nodeMap  |-> MapDelete(g.nodeMap, id),
              outgoing |-> MapDelete(out1, id),
              incoming |-> MapDelete(inc1, id)]

\* the for-loop over nextSet inside hasPath's while loop, from position i on
RECURSIVE ScanNext(_, _, _, _, _)
ScanNext(nextSet, i, to, visited, stack) ==
  IF i > Len(nextSet)
    THEN [found |-> FALSE, visited |-> visited, stack |-> stack]
    ELSE LET next == nextSet[i]
         IN  IF next = to
               THEN [found |-> TRUE, visited |-> visited, stack |-> stack]
               ELSE IF next \notin visited
                 THEN ScanNext(nextSet, i + 1, to, visited \cup {next}, Append(stack, next))
                 ELSE ScanNext(nextSet, i + 1, to, visited, stack)

\* hasPath's while (stack.length > 0) loop
RECURSIVE PathLoop(_, _, _, _)
PathLoop(g, to, visited, stack) ==
  IF stack = <<>>
    THEN FALSE
    ELSE LET current == stack[Len(stack)]
             rest    == SubSeq(stack, 1, Len(stack) - 1)
         IN  IF ~MapHas(g.outgoing, current)
               THEN PathLoop(g, to, visited, rest)
               ELSE LET r == ScanNext(MapGet(g.outgoing, current), 1, to, visited, rest)
                    IN  r.found \/ PathLoop(g, to, r.visited, r.stack)

\* hasPath as it would be if it looked at the direct successors only
hasPathDirectOnly(g, from, to) == from = to \/ SetHas(Targets(g.outgoing, from), to)

\* hasPath for two existing nodes (it throws when one is missing)
hasPath(g, from, to) ==
  IF from = to THEN TRUE ELSE PathLoop(g, to, {from}, <<from>>)

\* addEdge as it would be if it recorded the edge before the cycle check
addEdgeBeforeCheck(g, from, to) ==
  IF ~hasNode(g, from) \/ ~hasNode(g, to) THEN Thrown(g, "Node does not exist")
  ELSE IF from = to THEN Thrown(g, "Self loop is not allowed")
  ELSE IF SetHas(MapGet(g.outgoing, from), to) THEN Returned(g)
  ELSE LET added == [g EXCEPT
             !.outgoing = MapSet(g.outgoing, from, SetAdd(MapGet(g.outgoing, from), to)),
             !.incoming = MapSet(g.incoming, to, SetAdd(MapGet(g.incoming, to), from))]
       IN  IF hasPath(g, to, from) THEN Thrown(added, "Adding edge creates cycle")
           ELSE Returned(added)

addEdge(g, from, to) ==
  IF ~hasNode(g, from) \/ ~hasNode(g, to) THEN Thrown(g, "Node does not exist")
  ELSE IF from = to THEN Thrown(g, "Self loop is not allowed")
  ELSE IF SetHas(MapGet(g.outgoing, from), to) THEN Returned(g)
  ELSE IF hasPath(g, to, from) THEN Thrown(g, "Adding edge creates cycle")
  ELSE Returned([g EXCEPT
         !.outgoing = MapSet(g.outgoing, from, SetAdd(MapGet(g.outgoing, from), to)),
         !.incoming = MapSet(g.incoming, to, SetAdd(MapGet(g.incoming, to), from))])

\* removeEdge returns whether the edge existed; it never throws
removeEdgeFound(g, from, to) ==
  MapHas(g.outgoing, from) /\ SetHas(MapGet(g.outgoing, from), to)

removeEdge(g, from, to) ==
  IF ~removeEdgeFound(g, from, to)
    THEN g
    ELSE [g EXCEPT
           !.outgoing = MapSet(g.outgoing, from, SetDelete(MapGet(g.outgoing, from), to)),
           !.incoming = IF MapHas(g.incoming, to)
                          THEN MapSet(g.incoming, to, SetDelete(MapGet(g.incoming, to), from))
                          ELSE g.incoming]

edgeSize(g) ==
  LET RECURSIVE Count(_)
      Count(i) == IF i > Len(g.outgoing) THEN 0
                  ELSE Len(g.outgoing[i].v) + Count(i + 1)
  IN  Count(1)

\* edges(): the pairs [from, to], by outgoing's entries and each entry's set
edges(g) ==
  LET RECURSIVE List(_)
      List(i) == IF i > Len(g.outgoing) THEN <<>>
                 ELSE [j \in 1..Len(g.outgoing[i].v) |->
                         <<g.outgoing[i].k, g.outgoing[i].v[j]>>] \o List(i + 1)
  IN  List(1)

\* nodes(): the entries {id, value} of nodeMap in order
nodes(g) == [i \in 1..Len(g.nodeMap) |-> [id |-> g.nodeMap[i].k, value |-> g.nodeMap[i].v]]

\* roots(): the nodes without incoming edge, in nodeMap order
roots(g) ==
  SelectSeq(MapKeys(g.nodeMap), LAMBDA id : Len(Targets(g.incoming, id)) = 0)

\* leaves(): the nodes without outgoing edge, in nodeMap order
leaves(g) ==
  SelectSeq(MapKeys(g.nodeMap), LAMBDA id : Len(Targets(g.outgoing, id)) = 0)

\* successors(id) / predecessors(id) of an existing node (they throw otherwise)
successors(g, id) == MapGet(g.outgoing, id)

predecessors(g, id) == MapGet(g.incoming, id)

\* inDegree(id) / outDegree(id) of an existing node (they throw otherwise)
inDegree(g, id) == Len(MapGet(g.incoming, id))

outDegree(g, id) == Len(MapGet(g.outgoing, id))

\* topologicalSort: the first loop, indegrees.set(id, incoming.get(id)?.size ?? 0)
InitialIndegrees(g) ==
  [i \in 1..Len(g.nodeMap) |->
     [k |-> g.nodeMap[i].k, v |-> Len(Targets(g.incoming, g.nodeMap[i].k))]]

\* the same loop as it would be if it queued a successor at every visit
RECURSIVE TopoRelaxEager(_, _, _, _)
TopoRelaxEager(targets, j, indegrees, queue) ==
  IF j > Len(targets)
    THEN [indegrees |-> indegrees, queue |-> queue]
    ELSE LET next       == targets[j]
             nextDegree == (IF MapHas(indegrees, next) THEN MapGet(indegrees, next) ELSE 0) - 1
         IN  TopoRelaxEager(targets, j + 1, MapSet(indegrees, next, nextDegree),
                            IF nextDegree <= 1 THEN Append(queue, next) ELSE queue)

\* topologicalSort: the for-loop over outgoing.get(current), from position j on
RECURSIVE TopoRelax(_, _, _, _)
TopoRelax(targets, j, indegrees, queue) ==
  IF j > Len(targets)
    THEN [indegrees |-> indegrees, queue |-> queue]
    ELSE LET next       == targets[j]
             nextDegree == (IF MapHas(indegrees, next) THEN MapGet(indegrees, next) ELSE 0) - 1
         IN  TopoRelax(targets, j + 1, MapSet(indegrees, next, nextDegree),
                       IF nextDegree = 0 THEN Append(queue, next) ELSE queue)

\* topologicalSort: while (index < queue.length); index counts from 1 here
RECURSIVE TopoLoop(_, _, _, _, _)
TopoLoop(g, indegrees, queue, index, order) ==
  IF index > Len(queue)
    THEN order
    ELSE LET current == queue[index]
             r       == TopoRelax(Targets(g.outgoing, current), 1, indegrees, queue)
         IN  TopoLoop(g, r.indegrees, r.queue, index + 1, Append(order, current))

\* topologicalSort: the order, or threw when it is shorter than the node table
topologicalSort(g) ==
  LET indegrees == InitialIndegrees(g)
      queue     == MapKeys(SelectSeq(indegrees, LAMBDA e : e.v = 0))
      order     == TopoLoop(g, indegrees, queue, 1, <<>>)
  IN  [order |-> order, threw |-> Len(order) # Len(g.nodeMap)]

\* ancestors / descendants: traverseFrom's while loop
RECURSIVE TraverseLoop(_, _, _)
TraverseLoop(adjacency, visited, stack) ==
  IF stack = <<>>
    THEN visited
    ELSE LET current == stack[Len(stack)]
             rest    == SubSeq(stack, 1, Len(stack) - 1)
         IN  IF SetHas(visited, current)
               THEN TraverseLoop(adjacency, visited, rest)
               ELSE LET seen == Append(visited, current)
                        more == SelectSeq(Targets(adjacency, current),
                                          LAMBDA n : ~SetHas(seen, n))
                    IN  TraverseLoop(adjacency, seen, rest \o more)

\* traverseFrom as it would be if it stopped at the adjacent nodes
traverseFromAdjacent(id, adjacency) == Targets(adjacency, id)

traverseFrom(id, adjacency) == TraverseLoop(adjacency, <<>>, Targets(adjacency, id))

\* ancestors(id) / descendants(id) of an existing node (they throw otherwise)
ancestors(g, id) == traverseFrom(id, g.incoming)

descendants(g, id) == traverseFrom(id, g.outgoing)

\* the constructor's two loops: addNode for every listed node, then addEdge for
\* every listed edge; the first DAGError ends the construction
RECURSIVE AddNodes(_, _)
AddNodes(r, ns) ==
  IF r.threw \/ ns = <<>> THEN r
  ELSE AddNodes(addNode(r.g, Head(ns).id, Head(ns).value), Tail(ns))

RECURSIVE AddEdges(_, _)
AddEdges(r, es) ==
  IF r.threw \/ es = <<>> THEN r
  ELSE AddEdges(addEdge(r.g, Head(es)[1], Head(es)[2]), Tail(es))

\* the constructor with the two loops exchanged
NewDAGEdgesFirst(ns, es) == AddNodes(AddEdges(Returned(EmptyDAG), es), ns)

NewDAG(ns, es) == AddEdges(AddNodes(Returned(EmptyDAG), ns), es)

serialize(g) == [nodes |-> nodes(g), edges |-> edges(g)]

\* DAG.from(data)
DAG_from(data) == NewDAG(data.nodes, data.edges)

clone(g) == DAG_from(serialize(g))

\* ------------------------------------------------------------------------
\* types.ts: variable values, conditions, commands, transitions
\* ------------------------------------------------------------------------

\* VariableValue = string | number | boolean; the model uses numbers and
\* booleans, tagged so that TLC can compare them
Num(n) == [t |-> "num", n |-> n]

Bool(b) == [t |-> "bool", n |-> IF b THEN 1 ELSE 0]

\* JavaScript's Number(v): true is 1, false is 0
Number(v) == v.n

Condition(variable, operator, value) ==
  [variable |-> variable, operator |-> operator, value |-> value]

Dialogue(characterId, text) == [type |-> "dialogue", characterId |-> characterId, text |-> text]

Narration(text) == [type |-> "narration", text |-> text]

SetVariable(key, value, operation) ==
  [type |-> "setVariable", key |-> key, value |-> value, operation |-> operation]

Wait == [type |-> "wait"]

\* transition?: undefined
NoTransition == [type |-> "none"]

AutoTransition(targetNodeId) == [type |-> "auto", targetNodeId |-> targetNodeId]

Choice(text, targetNodeId, conditions, effects) ==
  [text |-> text, targetNodeId |-> targetNodeId, conditions |-> conditions, effects |-> effects]

ChoiceTransition(choices) == [type |-> "choice", choices |-> choices]

\* fallbackNodeId "" is the absent fallback (the code tests its truthiness)
ConditionalTransition(branches, fallbackNodeId) ==
  [type |-> "conditional", branches |-> branches, fallbackNodeId |-> fallbackNodeId]

Branch(conditions, targetNodeId) == [conditions |-> conditions, targetNodeId |-> targetNodeId]

\* an end transition; endingName and endingType are optional ("" when absent)
EndTransition == [type |-> "end", endingName |-> "finale", endingType |-> "good"]

SceneNodeData(commands, transition) == [commands |-> commands, transition |-> transition]

Node(id, commands, transition) == [id |-> id, value |-> SceneNodeData(commands, transition)]

VariableDefinition(key, defaultValue) == [key |-> key, defaultValue |-> defaultValue]

\* ------------------------------------------------------------------------
\* The scripts handed to loadScript
\* ------------------------------------------------------------------------

Alice == [id |-> "alice", name |-> "Alice"]

Bob == [id |-> "bob", name |-> "Bob"]

\* a story the validator accepts: a choice, a conditional branch with
\* fallback, a node without transition and one successor, an end transition
Story ==
  [entryNodeId |-> "A",
   characters  |-> <<Alice>>,
   variables   |-> <<VariableDefinition("affection", Num(0)),
                     VariableDefinition("flag", Bool(FALSE))>>,
   nodes |-> <<
     Node("A", <<Dialogue("alice", "hello"), SetVariable("affection", Num(1), "add")>>,
          ChoiceTransition(<<
            Choice("confess", "D", <<Condition("affection", ">=", Num(5))>>, <<>>),
            Choice("talk", "B", <<>>, <<[key |-> "affection", value |-> Num(3)]>>),
            Choice("leave", "C", <<Condition("flag", "==", Bool(FALSE))>>,
                   <<[key |-> "flag", value |-> Bool(TRUE)]>>)>>)),
     Node("B", <<Narration("a walk")>>,
          ConditionalTransition(
            <<Branch(<<Condition("affection", ">=", Num(5))>>, "D")>>, "C")),
     Node("C", <<>>, NoTransition),
     Node("D", <<Wait>>, EndTransition)>>,
   edges |-> << <<"A", "B">>, <<"A", "C">>, <<"A", "D">>,
                <<"B", "C">>, <<"B", "D">>, <<"C", "D">> >>]

\* a script the validator accepts although its transitions do not follow its
\* edges: an auto transition, a node without transition and two successors,
\* a conditional without fallback that targets an ancestor, a leaf
Detour ==
  [entryNodeId |-> "A",
   characters  |-> <<Alice, Bob>>,
   variables   |-> <<VariableDefinition("affection", Num(0))>>,
   nodes |-> <<
     Node("A", <<Dialogue("bob", "hey")>>, AutoTransition("B")),
     Node("B", <<SetVariable("flag", Bool(TRUE), "toggle")>>, NoTransition),
     Node("C", <<>>,
          ConditionalTransition(
            <<Branch(<<Condition("affection", ">", Num(0))>>, "A")>>, "")),
     Node("D", <<Narration("the end")>>, NoTransition)>>,
   edges |-> << <<"A", "B">>, <<"B", "C">>, <<"B", "D">> >>]

\* a script the validator rejects and the DAG constructor accepts: choice,
\* auto and conditional transitions that target a node "X" the script does
\* not have; the conditional of C has two branches and no fallback
Dangling ==
  [entryNodeId |-> "A",
   characters  |-> <<>>,
   variables   |-> <<VariableDefinition("affection", Num(0))>>,
   nodes |-> <<
     Node("A", <<Wait>>,
          ChoiceTransition(<<
            Choice("lost", "X", <<>>, <<[key |-> "affection", value |-> Num(1)]>>),
            Choice("on", "B", <<Condition("affection", "==", Num(1))>>, <<>>)>>)),
     Node("B", <<>>, AutoTransition("X")),
     Node("C", <<>>,
          ConditionalTransition(
            <<Branch(<<Condition("affection", ">=", Num(5))>>, "X"),
              Branch(<<Condition("affection", ">=", Num(0))>>, "B")>>, ""))>>,
   edges |-> << <<"A", "B">> >>]

\* a script whose edges form a cycle: the DAG constructor throws
Cyclic ==
  [entryNodeId |-> "A",
   characters  |-> <<>>,
   variables   |-> <<>>,
   nodes |-> <<Node("A", <<>>, NoTransition), Node("B", <<>>, NoTransition)>>,
   edges |-> << <<"A", "B">>, <<"B", "A">> >>]

\* a script the validator accepts whose auto transitions lead from A to B
\* and from B back to A, against the only edge
Loop ==
  [entryNodeId |-> "A",
   characters  |-> <<>>,
   variables   |-> <<>>,
   nodes |-> <<Node("A", <<>>, AutoTransition("B")),
               Node("B", <<Wait>>, AutoTransition("A"))>>,
   edges |-> << <<"A", "B">> >>]

Scripts == {Story, Detour, Dangling, Cyclic, Loop}

\* ------------------------------------------------------------------------
\* The documents handed to the loader: a small valid script with any
\* combination of defects put into it
\* ------------------------------------------------------------------------

\* a node's value when the document gives the node no value
Undefined == [undefined |-> TRUE]

IsUndefined(v) == "undefined" \in DOMAIN v

Defects ==
  {"emptyTitle", "noEdges", "duplicateNode", "unknownEntry", "danglingEdge",
   "danglingTransition", "duplicateVariable", "duplicateCharacter", "cycle",
   "noValue"}

\* the document with the defects ds; absent holds the keys the object lacks.
\* Without defects: A (one dialogue, auto transition to B) and the leaf B
WithDefects(ds) ==
  [object      |-> TRUE,
   absent      |-> IF "noEdges" \in ds THEN {"edges"} ELSE {},
   id          |-> "tale",
   title       |-> IF "emptyTitle" \in ds THEN "" ELSE "Tale",
   version     |-> "1",
   entryNodeId |-> IF "unknownEntry" \in ds THEN "Z" ELSE "A",
   characters  |-> <<Alice>> \o (IF "duplicateCharacter" \in ds THEN <<Alice>> ELSE <<>>),
   variables   |-> <<VariableDefinition("affection", Num(0))>>
                     \o (IF "duplicateVariable" \in ds
                           THEN <<VariableDefinition("affection", Num(1))>> ELSE <<>>),
   nodes       |-> <<Node("A", <<Dialogue("alice", "hello")>>, AutoTransition("B")),
                     Node("B", <<>>, IF "danglingTransition" \in ds
                                       THEN AutoTransition("X") ELSE NoTransition)>>
                     \o (IF "duplicateNode" \in ds
                           THEN <<Node("A", <<>>, NoTransition)>> ELSE <<>>)
                     \o (IF "noValue" \in ds
                           THEN <<[id |-> "C", value |-> Undefined]>> ELSE <<>>),
   edges       |-> IF "noEdges" \in ds THEN <<>>
                   ELSE << <<"A", "B">> >>
                          \o (IF "danglingEdge" \in ds THEN << <<"B", "Y">> >> ELSE <<>>)
                          \o (IF "cycle" \in ds THEN << <<"B", "A">> >> ELSE <<>>)
                          \o (IF "noValue" \in ds THEN << <<"B", "C">> >> ELSE <<>>)]

\* a JSON value that is not an object
NotAnObject == [WithDefects({}) EXCEPT !.object = FALSE]

Documents == {WithDefects(ds) : ds \in SUBSET Defects} \cup {NotAnObject}

\* ------------------------------------------------------------------------
\* LoadDAGData.ts
\* ------------------------------------------------------------------------

\* one entry of the error list, or the message of a LoadDAGError: which check
\* produced it and the identifiers its text quotes ("" when it quotes none)
Problem(check, id, other) == <<check, id, other>>

CheckOf(problem) == problem[1]

\* the identifiers the text of a problem quotes
Quoted(problem) == {problem[2], problem[3]} \ {""}

RECURSIVE Flatten(_)
Flatten(ss) == IF ss = <<>> THEN <<>> ELSE Head(ss) \o Flatten(Tail(ss))

\* the errors of one pass over items, item by item
ForEach(items, Errors(_)) == Flatten([i \in 1..Len(items) |-> Errors(i)])

\* nodeIds after the first pass: every non-empty node id
NodeIds(script) == {script.nodes[i].id : i \in 1..Len(script.nodes)} \ {""}

\* node.value?.transition
TransitionOf(node) ==
  IF IsUndefined(node.value) THEN NoTransition ELSE node.value.transition

UnknownTarget(nodeIds, check, node, target) ==
  IF target \in nodeIds THEN <<>> ELSE <<Problem(check, node.id, target)>>

TransitionErrors(nodeIds, node) ==
  LET t == TransitionOf(node)
  IN  CASE t.type = "auto" -> UnknownTarget(nodeIds, "autoTarget", node, t.targetNodeId)
        [] t.type = "choice" ->
             ForEach(t.choices, LAMBDA k :
               UnknownTarget(nodeIds, "choiceTarget", node, t.choices[k].targetNodeId))
        [] t.type = "conditional" ->
             ForEach(t.branches, LAMBDA k :
               UnknownTarget(nodeIds, "branchTarget", node, t.branches[k].targetNodeId))
             \o (IF t.fallbackNodeId # ""
                   THEN UnknownTarget(nodeIds, "fallbackTarget", node, t.fallbackNodeId)
                   ELSE <<>>)
        [] OTHER -> <<>>

\* new DAG({nodes, edges}) followed by topologicalSort() throws
GraphThrows(script) ==
  LET built == NewDAG([i \in 1..Len(script.nodes) |->
                         [id |-> script.nodes[i].id, value |-> script.nodes[i].value]],
                      script.edges)
  IN  built.threw \/ topologicalSort(built.g).threw

validate(script) ==
  LET nodeIds == NodeIds(script)
      errors ==
        ForEach(script.nodes, LAMBDA i :
          IF script.nodes[i].id = "" THEN <<Problem("emptyNodeId", "", "")>>
          ELSE IF \E j \in 1..(i - 1) : script.nodes[j].id = script.nodes[i].id
            THEN <<Problem("duplicateNode", script.nodes[i].id, "")>>
          ELSE <<>>)
        \o (IF script.entryNodeId \in nodeIds THEN <<>>
            ELSE <<Problem("entryNode", script.entryNodeId, "")>>)
        \o ForEach(script.edges, LAMBDA i :
             (IF script.edges[i][1] \in nodeIds THEN <<>>
              ELSE <<Problem("edgeSource", script.edges[i][1], "")>>)
             \o (IF script.edges[i][2] \in nodeIds THEN <<>>
                 ELSE <<Problem("edgeTarget", script.edges[i][2], "")>>))
        \o ForEach(script.nodes, LAMBDA i : TransitionErrors(nodeIds, script.nodes[i]))
        \o ForEach(script.variables, LAMBDA i :
             IF \E j \in 1..(i - 1) : script.variables[j].key = script.variables[i].key
               THEN <<Problem("duplicateVariable", script.variables[i].key, "")>>
               ELSE <<>>)
        \o ForEach(script.characters, LAMBDA i :
             IF \E j \in 1..(i - 1) : script.characters[j].id = script.characters[i].id
               THEN <<Problem("duplicateCharacter", script.characters[i].id, "")>>
               ELSE <<>>)
        \o (IF GraphThrows(script) THEN <<Problem("cycle", "", "")>> ELSE <<>>)
  IN  [valid |-> errors = <<>>, errors |-> errors]

\* the outcome of parse: the script, or a LoadDAGError with its problems
Parsed(script) == [threw |-> FALSE, problems |-> <<>>, script |-> <<script>>]

Rejected(problems) == [threw |-> TRUE, problems |-> problems, script |-> <<>>]

assertString(obj, key) == obj[key] # ""

assertArray(obj, key) == key \notin obj.absent

\* the first of keys for which assertString throws; "" if none
RECURSIVE FirstNotString(_, _)
FirstNotString(obj, keys) ==
  IF keys = <<>> THEN ""
  ELSE IF ~assertString(obj, Head(keys)) THEN Head(keys)
  ELSE FirstNotString(obj, Tail(keys))

\* the first of keys for which assertArray throws; "" if none
RECURSIVE FirstNotArray(_, _)
FirstNotArray(obj, keys) ==
  IF keys = <<>> THEN ""
  ELSE IF ~assertArray(obj, Head(keys)) THEN Head(keys)
  ELSE FirstNotArray(obj, Tail(keys))

parse(data) ==
  IF ~data.object THEN Rejected(<<Problem("notAnObject", "", "")>>)
  ELSE LET s == FirstNotString(data, <<"id", "title", "version", "entryNodeId">>)
           a == FirstNotArray(data, <<"characters", "variables", "nodes", "edges">>)
       IN  IF s # "" THEN Rejected(<<Problem("requiredString", s, "")>>)
           ELSE IF a # "" THEN Rejected(<<Problem("requiredArray", a, "")>>)
           ELSE LET validation == validate(data)
                IN  IF ~validation.valid THEN Rejected(validation.errors)
                    ELSE Parsed(data)

buildDAG(script) ==
  NewDAG([i \in 1..Len(script.nodes) |->
            [id |-> script.nodes[i].id, value |-> script.nodes[i].value]],
         script.edges)

\* the GameScript values validate and buildDAG are handed
TypedScripts == Scripts \cup {d \in Documents : d.object /\ d.absent = {}}

\* the documents parse returns and the scripts validate finds valid
Accepted ==
  {d \in Documents : ~parse(d).threw} \cup {s \in TypedScripts : validate(s).valid}

\* new DAG({nodes: script.nodes.map(...), edges: script.edges}) for each script,
\* as loadScript, validate and buildDAG construct it
NewDAGOf ==
  [script \in Scripts \cup Accepted |->
     NewDAG([i \in 1..Len(script.nodes) |->
               [id |-> script.nodes[i].id, value |-> script.nodes[i].value]],
            script.edges)]

\* ------------------------------------------------------------------------
\* GalPlayDAG.ts, as operators on the engine's fields e:
\*   dag, state, characters, variableDefs, playing, paused, ended,
\* with e.events the events emitted so far by the running call, e.now the
\* value Date.now() returns during it, and e.entered whether the call has
\* put the engine at the start of a visit (jump, load, restart)
\* ------------------------------------------------------------------------

createEmptyState ==
  [currentNodeId |-> "", commandIndex |-> 0, variables |-> <<>>,
   visitedNodes |-> <<>>, dialogueHistory |-> <<>>, savedAt |-> <<>>]

\* GalEvent
EventKinds ==
  {"command", "choiceRequest", "nodeEnd", "ending", "autoAdvance", "stateChange", "error"}

\* the listeners map of a newly constructed engine: no callback for any event
NoListeners == [kind \in EventKinds |-> <<>>]

\* the loop of emit without its try/catch: the first callback that throws
\* ends it
RECURSIVE NotifyUncaught(_, _)
NotifyUncaught(cbs, event) ==
  IF cbs = <<>> THEN <<>>
  ELSE <<[callback |-> Head(cbs), event |-> event, logged |-> Head(cbs).throws]>>
       \o (IF Head(cbs).throws THEN <<>> ELSE NotifyUncaught(Tail(cbs), event))

\* the loop of emit over the callbacks cbs of the event: each is called with
\* the payload; one that throws is caught and logged, and the loop goes on
RECURSIVE Notify(_, _)
Notify(cbs, event) ==
  IF cbs = <<>> THEN <<>>
  ELSE <<[callback |-> Head(cbs), event |-> event, logged |-> Head(cbs).throws]>>
       \o Notify(Tail(cbs), event)

emit(e, event) ==
  [e EXCEPT !.events = Append(@, event),
            !.delivered = @ \o Notify(e.listeners[event.type], event)]

ErrorEvent(message) == [type |-> "error", message |-> message]

\* getState: structuredClone of the state
getState(e) == e.state

emitStateChange(e) == emit(e, [type |-> "stateChange", state |-> getState(e)])

\* the variables object: a function from the keys present to their values
HasVar(variables, key) == key \in DOMAIN variables

PutVar(variables, key, value) ==
  [k \in (DOMAIN variables) \cup {key} |-> IF k = key THEN value ELSE variables[k]]

evaluateCondition(variables, c) ==
  LET defined == HasVar(variables, c.variable)
      current == variables[c.variable]
  IN  CASE c.operator = "==" -> defined /\ Number(current) = Number(c.value)
        [] c.operator = "!=" -> ~(defined /\ Number(current) = Number(c.value))
        [] c.operator = ">"  -> defined /\ Number(current) > Number(c.value)
        [] c.operator = "<"  -> defined /\ Number(current) < Number(c.value)
        [] c.operator = ">=" -> defined /\ Number(current) >= Number(c.value)
        [] c.operator = "<=" -> defined /\ Number(current) <= Number(c.value)
        [] OTHER -> FALSE

evaluateConditions(variables, conditions) ==
  \A i \in 1..Len(conditions) : evaluateCondition(variables, conditions[i])

evaluateChoiceVisible(variables, choice) ==
  IF Len(choice.conditions) = 0 THEN TRUE
  ELSE evaluateConditions(variables, choice.conditions)

\* (Number(variables[key]) || 0): a missing variable counts as 0
NumberOrZero(variables, key) == IF HasVar(variables, key) THEN Number(variables[key]) ELSE 0

applyVariable(variables, key, value, operation) ==
  CASE operation = "set"      -> PutVar(variables, key, value)
    [] operation = "add"      ->
         PutVar(variables, key, Num(NumberOrZero(variables, key) + Number(value)))
    [] operation = "subtract" ->
         PutVar(variables, key, Num(NumberOrZero(variables, key) - Number(value)))
    [] operation = "toggle"   ->
         PutVar(variables, key, Bool(NumberOrZero(variables, key) = 0))
    [] OTHER -> variables

\* jumpToNode as it would be if it left the cursor where it was
jumpToNodeKeepingCursor(e, targetId) ==
  IF ~hasNode(e.dag, targetId)
    THEN emit(e, ErrorEvent("Target node not found"))
    ELSE LET visited == IF SetHas(e.state.visitedNodes, e.state.currentNodeId)
                          THEN e.state.visitedNodes
                          ELSE Append(e.state.visitedNodes, e.state.currentNodeId)
         IN  emitStateChange([e EXCEPT !.state.visitedNodes = visited,
                                       !.state.currentNodeId = targetId,
                                       !.entered = TRUE])

\* jumpToNode as it would be if it recorded the departing node every time
jumpToNodeAlwaysRecording(e, targetId) ==
  IF ~hasNode(e.dag, targetId)
    THEN emit(e, ErrorEvent("Target node not found"))
    ELSE emitStateChange([e EXCEPT !.state.visitedNodes = Append(@, e.state.currentNodeId),
                                   !.state.currentNodeId = targetId,
                                   !.state.commandIndex = 0,
                                   !.entered = TRUE])

jumpToNode(e, targetId) ==
  IF ~hasNode(e.dag, targetId)
    THEN emit(e, ErrorEvent("Target node not found"))
    ELSE LET visited == IF SetHas(e.state.visitedNodes, e.state.currentNodeId)
                          THEN e.state.visitedNodes
                          ELSE Append(e.state.visitedNodes, e.state.currentNodeId)
         IN  emitStateChange([e EXCEPT !.state.visitedNodes = visited,
                                       !.state.currentNodeId = targetId,
                                       !.state.commandIndex = 0,
                                       !.entered = TRUE])

\* doEnding(endingName?, endingType?): "" stands for undefined
doEnding(e, endingName, endingType) ==
  emit([e EXCEPT !.ended = TRUE],
       [type |-> "ending", endingName |-> endingName, endingType |-> endingType,
        nodeId |-> e.state.currentNodeId])

handleEndTransition(e, t) == doEnding(e, t.endingName, t.endingType)

handleAutoTransition(e, t) ==
  jumpToNode(emit(e, [type |-> "autoAdvance", fromNodeId |-> e.state.currentNodeId,
                      toNodeId |-> t.targetNodeId]),
             t.targetNodeId)

\* the choices of the choice-request event: every choice, with its visibility
AnnotatedChoices(e, t) ==
  [i \in 1..Len(t.choices) |->
     [choice |-> t.choices[i],
      visible |-> evaluateChoiceVisible(e.state.variables, t.choices[i])]]

handleChoiceTransition(e, t) ==
  emit(e, [type |-> "choiceRequest", choices |-> AnnotatedChoices(e, t),
           nodeId |-> e.state.currentNodeId])

\* the first branch, from position i on, whose conditions all hold; 0 if none
RECURSIVE FirstBranch(_, _, _)
FirstBranch(variables, branches, i) ==
  IF i > Len(branches) THEN 0
  ELSE IF evaluateConditions(variables, branches[i].conditions) THEN i
  ELSE FirstBranch(variables, branches, i + 1)

\* handleConditionalTransition as it would be if the fallback, when present,
\* were taken before the branches are looked at, and the last branch won
handleConditionalTransitionFallbackFirst(e, t) ==
  LET matching == {i \in 1..Len(t.branches) :
                     evaluateConditions(e.state.variables, t.branches[i].conditions)}
  IN  IF t.fallbackNodeId # "" THEN jumpToNode(e, t.fallbackNodeId)
      ELSE IF matching # {}
        THEN jumpToNode(e, t.branches[CHOOSE i \in matching :
                                        \A j \in matching : j <= i].targetNodeId)
      ELSE emit(e, ErrorEvent("No conditional branch matched and no fallback defined"))

handleConditionalTransition(e, t) ==
  LET b == FirstBranch(e.state.variables, t.branches, 1)
  IN  IF b # 0 THEN jumpToNode(e, t.branches[b].targetNodeId)
      ELSE IF t.fallbackNodeId # "" THEN jumpToNode(e, t.fallbackNodeId)
      ELSE emit(e, ErrorEvent("No conditional branch matched and no fallback defined"))

\* handleTransition as it would be if a node without transition followed its
\* first successor whenever it has one
handleTransitionFirstSuccessor(e, transition) ==
  IF transition.type = "none"
    THEN LET succ == successors(e.dag, e.state.currentNodeId)
         IN  IF Len(succ) >= 1 THEN jumpToNode(e, succ[1])
             ELSE doEnding(e, "", "")
    ELSE CASE transition.type = "auto"        -> handleAutoTransition(e, transition)
           [] transition.type = "choice"      -> handleChoiceTransition(e, transition)
           [] transition.type = "conditional" -> handleConditionalTransition(e, transition)
           [] transition.type = "end"         -> handleEndTransition(e, transition)
           [] OTHER -> e

handleTransition(e, transition) ==
  IF transition.type = "none"
    THEN LET succ == successors(e.dag, e.state.currentNodeId)
         IN  IF Len(succ) = 1 THEN jumpToNode(e, succ[1])
             ELSE IF Len(succ) = 0 THEN doEnding(e, "", "")
             ELSE emit(e, ErrorEvent("multiple successors but no transition defined"))
    ELSE CASE transition.type = "auto"        -> handleAutoTransition(e, transition)
           [] transition.type = "choice"      -> handleChoiceTransition(e, transition)
           [] transition.type = "conditional" -> handleConditionalTransition(e, transition)
           [] transition.type = "end"         -> handleEndTransition(e, transition)
           [] OTHER -> e

\* getNodeValue(id) is neither undefined nor an absent value
HasNodeData(g, id) == hasNode(g, id) /\ ~IsUndefined(MapGet(g.nodeMap, id))

\* executeCommand as it would be if the event were emitted after the cursor
\* had moved on
executeCommandLateIndex(e, cmd) ==
  LET history ==
        IF cmd.type = "dialogue"
          THEN Append(e.state.dialogueHistory,
                      [characterId |-> cmd.characterId, text |-> cmd.text, timestamp |-> e.now])
        ELSE IF cmd.type = "narration"
          THEN Append(e.state.dialogueHistory, [text |-> cmd.text, timestamp |-> e.now])
        ELSE e.state.dialogueHistory
      variables ==
        IF cmd.type = "setVariable"
          THEN applyVariable(e.state.variables, cmd.key, cmd.value, cmd.operation)
          ELSE e.state.variables
  IN  emit([e EXCEPT !.state.dialogueHistory = history, !.state.variables = variables],
           [type |-> "command", command |-> cmd, index |-> e.state.commandIndex + 1,
            nodeId |-> e.state.currentNodeId])

\* executeCommand: history, variable mutation, then the command event
executeCommand(e, cmd) ==
  LET history ==
        IF cmd.type = "dialogue"
          THEN Append(e.state.dialogueHistory,
                      [characterId |-> cmd.characterId, text |-> cmd.text, timestamp |-> e.now])
        ELSE IF cmd.type = "narration"
          THEN Append(e.state.dialogueHistory, [text |-> cmd.text, timestamp |-> e.now])
        ELSE e.state.dialogueHistory
      variables ==
        IF cmd.type = "setVariable"
          THEN applyVariable(e.state.variables, cmd.key, cmd.value, cmd.operation)
          ELSE e.state.variables
  IN  emit([e EXCEPT !.state.dialogueHistory = history, !.state.variables = variables],
           [type |-> "command", command |-> cmd, index |-> e.state.commandIndex,
            nodeId |-> e.state.currentNodeId])

\* next as it would be without the test of the ended flag
nextIgnoringEnded(e) ==
  IF e.paused THEN e
  ELSE IF ~HasNodeData(e.dag, e.state.currentNodeId)
    THEN emit(e, ErrorEvent("Node not found"))
  ELSE LET nodeData == MapGet(e.dag.nodeMap, e.state.currentNodeId)
           commands == nodeData.commands
       IN  IF e.state.commandIndex < Len(commands)
             THEN LET e1 == executeCommand(e, commands[e.state.commandIndex + 1])
                  IN  emitStateChange([e1 EXCEPT !.state.commandIndex = @ + 1])
             ELSE handleTransition(emit(e, [type |-> "nodeEnd",
                                            nodeId |-> e.state.currentNodeId]),
                                   nodeData.transition)

\* next as it would be without the test of the paused flag
nextIgnoringPause(e) ==
  IF e.ended THEN e
  ELSE IF ~HasNodeData(e.dag, e.state.currentNodeId)
    THEN emit(e, ErrorEvent("Node not found"))
  ELSE LET nodeData == MapGet(e.dag.nodeMap, e.state.currentNodeId)
           commands == nodeData.commands
       IN  IF e.state.commandIndex < Len(commands)
             THEN LET e1 == executeCommand(e, commands[e.state.commandIndex + 1])
                  IN  emitStateChange([e1 EXCEPT !.state.commandIndex = @ + 1])
             ELSE handleTransition(emit(e, [type |-> "nodeEnd",
                                            nodeId |-> e.state.currentNodeId]),
                                   nodeData.transition)

next(e) ==
  IF e.ended THEN e
  ELSE IF e.paused THEN e
  ELSE IF ~HasNodeData(e.dag, e.state.currentNodeId)
    THEN emit(e, ErrorEvent("Node not found"))
  ELSE LET nodeData == MapGet(e.dag.nodeMap, e.state.currentNodeId)
           commands == nodeData.commands
       IN  IF e.state.commandIndex < Len(commands)
             THEN LET e1 == executeCommand(e, commands[e.state.commandIndex + 1])
                  IN  emitStateChange([e1 EXCEPT !.state.commandIndex = @ + 1])
             ELSE handleTransition(emit(e, [type |-> "nodeEnd",
                                            nodeId |-> e.state.currentNodeId]),
                                   nodeData.transition)

\* variables[effect.key] = effect.value for every effect, in order
RECURSIVE ApplyEffects(_, _)
ApplyEffects(variables, effects) ==
  IF effects = <<>> THEN variables
  ELSE ApplyEffects(PutVar(variables, Head(effects).key, Head(effects).value), Tail(effects))

\* transition.choices.filter(c => this.evaluateChoiceVisible(c))
VisibleChoices(variables, choices) ==
  SelectSeq(choices, LAMBDA c : evaluateChoiceVisible(variables, c))

\* selectChoice as it would be if it indexed the declared choices instead of
\* the visible ones
selectChoiceUnfiltered(e, choiceIndex) ==
  IF ~HasNodeData(e.dag, e.state.currentNodeId)
     \/ MapGet(e.dag.nodeMap, e.state.currentNodeId).transition.type # "choice"
    THEN emit(e, ErrorEvent("Current node is not a choice node"))
    ELSE LET transition == MapGet(e.dag.nodeMap, e.state.currentNodeId).transition
         IN  IF choiceIndex < 0 \/ choiceIndex >= Len(transition.choices)
               THEN emit(e, ErrorEvent("Invalid choice index"))
               ELSE LET choice == transition.choices[choiceIndex + 1]
                    IN  jumpToNode([e EXCEPT !.state.variables =
                                        ApplyEffects(@, choice.effects)],
                                   choice.targetNodeId)

\* choiceIndex counts from 0
selectChoice(e, choiceIndex) ==
  IF ~HasNodeData(e.dag, e.state.currentNodeId)
     \/ MapGet(e.dag.nodeMap, e.state.currentNodeId).transition.type # "choice"
    THEN emit(e, ErrorEvent("Current node is not a choice node"))
    ELSE LET transition     == MapGet(e.dag.nodeMap, e.state.currentNodeId).transition
             visibleChoices == VisibleChoices(e.state.variables, transition.choices)
         IN  IF choiceIndex < 0 \/ choiceIndex >= Len(visibleChoices)
               THEN emit(e, ErrorEvent("Invalid choice index"))
               ELSE LET choice == visibleChoices[choiceIndex + 1]
                    IN  jumpToNode([e EXCEPT !.state.variables =
                                        ApplyEffects(@, choice.effects)],
                                   choice.targetNodeId)

pause(e) == [e EXCEPT !.paused = TRUE]

resume(e) == [e EXCEPT !.paused = FALSE]

\* variables[def.key] = def.defaultValue for every definition, in order
RECURSIVE DefaultVariables(_, _)
DefaultVariables(variables, defs) ==
  IF defs = <<>> THEN variables
  ELSE DefaultVariables(PutVar(variables, Head(defs).key, Head(defs).defaultValue), Tail(defs))

\* variableDefs.set(def.key, def) for every definition, in order
RECURSIVE DefsTable(_, _)
DefsTable(table, defs) ==
  IF defs = <<>> THEN table
  ELSE DefsTable(MapSet(table, Head(defs).key, Head(defs)), Tail(defs))

\* characters.set(char.id, char) for every character, in order
RECURSIVE CharacterTable(_, _)
CharacterTable(table, chars) ==
  IF chars = <<>> THEN table
  ELSE CharacterTable(MapSet(table, Head(chars).id, Head(chars)), Tail(chars))

\* next() with a subscriber of the command event whose handler calls next()
\* itself, unless it is running inside such a call already: the handler's
\* call runs inside the emit of executeCommand, before the cursor is advanced
nextReentering(e) ==
  IF e.ended THEN e
  ELSE IF e.paused THEN e
  ELSE IF ~HasNodeData(e.dag, e.state.currentNodeId)
    THEN emit(e, ErrorEvent("Node not found"))
  ELSE LET nodeData == MapGet(e.dag.nodeMap, e.state.currentNodeId)
           commands == nodeData.commands
       IN  IF e.state.commandIndex < Len(commands)
             THEN LET e1 == executeCommand(e, commands[e.state.commandIndex + 1])
                      e2 == next(e1)
                  IN  emitStateChange([e2 EXCEPT !.state.commandIndex = @ + 1])
             ELSE handleTransition(emit(e, [type |-> "nodeEnd",
                                            nodeId |-> e.state.currentNodeId]),
                                   nodeData.transition)

\* loadScript; when the DAG constructor throws, nothing has been assigned yet
loadScript(e, script) ==
  LET built == NewDAGOf[script]
  IN  IF built.threw
        THEN [e EXCEPT !.threw = TRUE]
        ELSE [e EXCEPT
               !.dag = built.g,
               !.characters = CharacterTable(<<>>, script.characters),
               !.variableDefs = DefsTable(<<>>, script.variables),
               !.state = [currentNodeId |-> script.entryNodeId, commandIndex |-> 0,
                          variables |-> DefaultVariables(<<>>, script.variables),
                          visitedNodes |-> <<>>, dialogueHistory |-> <<>>,
                          savedAt |-> <<>>],
               !.playing = FALSE, !.paused = FALSE, !.ended = FALSE,
               !.entered = TRUE]

\* restart as it would be if it ignored its argument
restartAtFirstRoot(e, entryNodeId) ==
  LET rs    == roots(e.dag)
      entry == IF rs # <<>> THEN rs[1] ELSE ""
  IN  IF entry = ""
        THEN emit(e, ErrorEvent("No entry node found"))
        ELSE emitStateChange([e EXCEPT
               !.state = [currentNodeId |-> entry, commandIndex |-> 0,
                          variables |-> DefaultVariables(<<>>, [i \in 1..Len(e.variableDefs) |->
                                                                  e.variableDefs[i].v]),
                          visitedNodes |-> <<>>, dialogueHistory |-> <<>>,
                          savedAt |-> <<>>],
               !.playing = FALSE, !.paused = FALSE, !.ended = FALSE,
               !.entered = TRUE])

\* restart as it would be if it kept the dialogue history
restartKeepingHistory(e, entryNodeId) ==
  LET rs    == roots(e.dag)
      entry == IF entryNodeId # <<>> THEN entryNodeId[1]
               ELSE IF rs # <<>> THEN rs[1] ELSE ""
  IN  IF entry = ""
        THEN emit(e, ErrorEvent("No entry node found"))
        ELSE emitStateChange([e EXCEPT
               !.state = [currentNodeId |-> entry, commandIndex |-> 0,
                          variables |-> DefaultVariables(<<>>, [i \in 1..Len(e.variableDefs) |->
                                                                  e.variableDefs[i].v]),
                          visitedNodes |-> <<>>,
                          dialogueHistory |-> e.state.dialogueHistory,
                          savedAt |-> <<>>],
               !.playing = FALSE, !.paused = FALSE, !.ended = FALSE,
               !.entered = TRUE])

\* restart(entryNodeId?): the argument is <<>> when omitted, <<id>> otherwise
restart(e, entryNodeId) ==
  LET rs    == roots(e.dag)
      entry == IF entryNodeId # <<>> THEN entryNodeId[1]
               ELSE IF rs # <<>> THEN rs[1] ELSE ""
  IN  IF entry = ""
        THEN emit(e, ErrorEvent("No entry node found"))
        ELSE emitStateChange([e EXCEPT
               !.state = [currentNodeId |-> entry, commandIndex |-> 0,
                          variables |-> DefaultVariables(<<>>, [i \in 1..Len(e.variableDefs) |->
                                                                  e.variableDefs[i].v]),
                          visitedNodes |-> <<>>, dialogueHistory |-> <<>>,
                          savedAt |-> <<>>],
               !.playing = FALSE, !.paused = FALSE, !.ended = FALSE,
               !.entered = TRUE])

\* loadState as it would be if the restored visit began at the node's first
\* instruction
loadStateAtNodeStart(e, snapshot) ==
  emitStateChange([e EXCEPT !.state = [snapshot EXCEPT !.commandIndex = 0],
                            !.ended = FALSE, !.paused = FALSE, !.entered = TRUE])

\* loadState as it would be if it left the ended and paused flags alone
loadStateKeepingFlags(e, snapshot) ==
  emitStateChange([e EXCEPT !.state = snapshot, !.entered = TRUE])

loadState(e, snapshot) ==
  emitStateChange([e EXCEPT !.state = snapshot, !.ended = FALSE, !.paused = FALSE,
                            !.entered = TRUE])

\* getDialogueHistory: [...dialogueHistory], a new array that holds the
\* engine's own entry objects
getDialogueHistory(e) == [entries |-> e.state.dialogueHistory, sameObjects |-> TRUE]

\* structuredClone of a value that has the dialogue history entries: a new
\* array of new entry objects
structuredClone(entries) == [entries |-> entries, sameObjects |-> FALSE]

\* save: the state's copy, stamped with Date.now()
save(e) == [getState(e) EXCEPT !.savedAt = <<e.now>>]

setVariable(e, key, value) ==
  emitStateChange([e EXCEPT !.state.variables = PutVar(@, key, value)])

\* ------------------------------------------------------------------------
\* LoadImage.ts, as operators on the loader's fields l: cache and pending
\* (Maps by url), with l.loads the loadImage promises created so far, each
\* with its url and its state, and l.gets the get calls made so far, each
\* with its url, the loads of that url in flight when it was made, and the
\* load whose image or failure it resolves with
\* ------------------------------------------------------------------------

\* the capacity the loader is constructed with
maxCacheSize == 1

\* new ImageLoader(maxCacheSize)
NewImageLoader == [cache |-> <<>>, pending |-> <<>>, loads |-> <<>>, gets |-> <<>>]

\* the loads of url that have neither loaded nor failed
InFlight(l, url) ==
  {id \in 1..Len(l.loads) : l.loads[id].url = url /\ l.loads[id].status = "loading"}

\* the position of the first entry with the smallest lastAccess
OldestEntry(cache) ==
  CHOOSE i \in 1..Len(cache) :
    /\ \A j \in 1..Len(cache) : cache[i].v.lastAccess <= cache[j].v.lastAccess
    /\ \A j \in 1..(i - 1) : cache[j].v.lastAccess > cache[i].v.lastAccess

evictLRU(cache) ==
  IF cache = <<>> THEN cache ELSE MapDelete(cache, cache[OldestEntry(cache)].k)

addToCache(cache, url, image, t) ==
  MapSet(IF Len(cache) >= maxCacheSize THEN evictLRU(cache) ELSE cache,
         url, [image |-> image, lastAccess |-> t])

GetCall(l, url, load) ==
  Append(l.gets, [url |-> url, during |-> InFlight(l, url), load |-> load])

\* get(url) up to its await: a cache hit, the pending promise of the url, or
\* a new load registered as pending; t is what Date.now() returns
get(l, url, t) ==
  IF MapHas(l.cache, url)
    THEN [l EXCEPT !.cache = MapSet(@, url, [MapGet(@, url) EXCEPT !.lastAccess = t]),
                   !.gets = GetCall(l, url, MapGet(l.cache, url).image)]
  ELSE IF MapHas(l.pending, url)
    THEN [l EXCEPT !.gets = GetCall(l, url, MapGet(l.pending, url))]
  ELSE [l EXCEPT !.loads = Append(@, [url |-> url, status |-> "loading"]),
                 !.pending = MapSet(@, url, Len(l.loads) + 1),
                 !.gets = GetCall(l, url, Len(l.loads) + 1)]

\* the rest of the get call that started load id, run when the load settles:
\* the image is cached if it loaded, and the url's pending entry is deleted
settle(l, id, loaded, t) ==
  [l EXCEPT !.loads[id].status = IF loaded THEN "loaded" ELSE "failed",
            !.cache = IF loaded THEN addToCache(@, l.loads[id].url, id, t) ELSE @,
            !.pending = MapDelete(@, l.loads[id].url)]

release(l, url) == [l EXCEPT !.cache = MapDelete(@, url)]

clearLoader(l) == [l EXCEPT !.cache = <<>>, !.pending = <<>>]

\* ------------------------------------------------------------------------
\* Inputs of the engine's methods
\* ------------------------------------------------------------------------

\* restart is called without argument or with one of these entry nodes
RestartArgs == {<<>>, <<"C">>, <<"D">>}

\* setVariable is called with one of these (key, value) pairs
SetVariableArgs == {<<"affection", Num(5)>>, <<"flag", Bool(TRUE)>>}

ChoiceIndices == -1..MaxChoiceIndex

\* a newly constructed engine, as the fields next, selectChoice, ... act on
NewEngine ==
  [dag |-> EmptyDAG, state |-> createEmptyState, characters |-> <<>>,
   variableDefs |-> <<>>, playing |-> FALSE, paused |-> FALSE, ended |-> FALSE,
   now |-> 0, events |-> <<>>, entered |-> FALSE, threw |-> FALSE,
   listeners |-> NoListeners, delivered |-> <<>>]

\* Story played from its entry: the first instruction of A executed
StoryInA == next(loadScript(NewEngine, Story))

\* ... then A finished, "talk" chosen and the instruction of B executed
StoryInB == next(selectChoice(next(next(StoryInA)), 0))

\* the snapshots loadState is handed besides the one just saved
Snapshots == {save(StoryInA), save(StoryInB)}

\* ------------------------------------------------------------------------
\* State
\* ------------------------------------------------------------------------

vars == <<dag, state, characters, variableDefs, playing, paused, ended, now,
          call, returned, events, cmdLog, visitStart, request, listeners, delivered,
          loader>>

engineVars == <<state, characters, variableDefs, playing, paused, ended, now,
                events, cmdLog, visitStart, request, listeners, delivered, loader>>

\* the argument of a call: a choice index, a node id (given or omitted), or a
\* variable key and value, or a snapshot (<<>> when none)
NoArg == [index |-> 0, given |-> FALSE, id |-> "", value |-> Num(0), snapshot |-> <<>>]

IndexArg(i) == [NoArg EXCEPT !.index = i]

EntryArg(entry) ==
  IF entry = <<>> THEN NoArg ELSE [NoArg EXCEPT !.given = TRUE, !.id = entry[1]]

KeyValueArg(key, value) == [NoArg EXCEPT !.id = key, !.value = value]

\* record of a public call: the method, its argument, whether it threw (and
\* the error's message), and whether a choice-request was pending when it
\* was made
Call(op, arg, threw, message, pending) ==
  [op |-> op, arg |-> arg, threw |-> threw, message |-> message, pending |-> pending]

NoRequest == [open |-> FALSE]

\* the state after construction: new DAG(), new GalPlayDAG()
Init ==
  /\ dag = EmptyDAG
  /\ state = createEmptyState
  /\ characters = <<>>
  /\ variableDefs = <<>>
  /\ playing = FALSE
  /\ paused = FALSE
  /\ ended = FALSE
  /\ now = 0
  /\ call = Call("new", NoArg, FALSE, "", FALSE)
  /\ returned = <<>>
  /\ events = <<>>
  /\ cmdLog = <<>>
  /\ visitStart = 0
  /\ request = NoRequest
  /\ listeners = NoListeners
  /\ delivered = <<>>
  /\ loader = NewImageLoader

\* ------------------------------------------------------------------------
\* The graph container driven through its public mutations
\* ------------------------------------------------------------------------

\* a mutator that returns this or throws
Mutate(op, r) ==
  /\ dag' = r.g
  /\ call' = Call(op, NoArg, r.threw, r.message, FALSE)
  /\ returned' = <<>>
  /\ UNCHANGED engineVars

AddNode == \E id \in Keys, v \in Values : Mutate("addNode", addNode(dag, id, v))

UpsertNode == \E id \in Keys, v \in Values : Mutate("upsertNode", upsertNode(dag, id, v))

SetNodeValue == \E id \in Keys, v \in Values : Mutate("setNodeValue", setNodeValue(dag, id, v))

RemoveNode ==
  \E id \in Keys :
    /\ dag' = removeNode(dag, id)
    /\ call' = Call("removeNode", [NoArg EXCEPT !.id = id], FALSE, "", FALSE)
    /\ returned' = <<hasNode(dag, id)>>
    /\ UNCHANGED engineVars

AddEdge == \E from \in Keys, to \in Keys : Mutate("addEdge", addEdge(dag, from, to))

RemoveEdge ==
  \E from \in Keys, to \in Keys :
    /\ dag' = removeEdge(dag, from, to)
    /\ call' = Call("removeEdge", NoArg, FALSE, "", FALSE)
    /\ returned' = <<removeEdgeFound(dag, from, to)>>
    /\ UNCHANGED engineVars

Clear ==
  /\ dag' = EmptyDAG
  /\ call' = Call("clear", NoArg, FALSE, "", FALSE)
  /\ returned' = <<>>
  /\ UNCHANGED engineVars

\* the orders in which n items can be listed
Orders(n) == {p \in [1..n -> 1..n] : \A i, j \in 1..n : p[i] = p[j] => i = j}

Reordered(items, p) == [i \in 1..Len(items) |-> items[p[i]]]

\* DAG.from(data) with data the serialized graph, its nodes and its edges
\* listed in any order; the graph is replaced by the one built
From ==
  \E p \in Orders(Len(nodes(dag))), q \in Orders(Len(edges(dag))) :
    LET data == [nodes |-> Reordered(serialize(dag).nodes, p),
                 edges |-> Reordered(serialize(dag).edges, q)]
        r    == DAG_from(data)
    IN  /\ dag' = IF r.threw THEN dag ELSE r.g
        /\ call' = Call("from", NoArg, r.threw, r.message, FALSE)
        /\ returned' = <<[reordered |-> data # serialize(dag)]>>
        /\ UNCHANGED engineVars

NextDAG ==
  \/ AddNode
  \/ UpsertNode
  \/ SetNodeValue
  \/ RemoveNode
  \/ AddEdge
  \/ RemoveEdge
  \/ Clear

SpecDAG == Init /\ [][NextDAG]_vars

\* the graph built up and taken down with one payload, and rebuilt from its
\* serialization
AddPlainNode == \E id \in Keys : Mutate("addNode", addNode(dag, id, "v1"))

NextSerialize ==
  \/ AddPlainNode
  \/ RemoveNode
  \/ AddEdge
  \/ RemoveEdge
  \/ Clear
  \/ From

SpecSerialize == Init /\ [][NextSerialize]_vars

\* ------------------------------------------------------------------------
\* The playback engine driven through its public methods
\* ------------------------------------------------------------------------

\* the engine's fields at the start of a call
Self ==
  [dag |-> dag, state |-> state, characters |-> characters,
   variableDefs |-> variableDefs, playing |-> playing, paused |-> paused,
   ended |-> ended, now |-> now, events |-> <<>>, entered |-> FALSE, threw |-> FALSE,
   listeners |-> listeners, delivered |-> <<>>]

EventsOfType(evs, type) == SelectSeq(evs, LAMBDA ev : ev.type = type)

Emitted(evs, type) == EventsOfType(evs, type) # <<>>

CommandEvents(evs) == SelectSeq(evs, LAMBDA ev : ev.type = "command")

ChoiceRequests(evs) == SelectSeq(evs, LAMBDA ev : ev.type = "choiceRequest")

\* the fields after a call that ended as r, and what a listener has seen
CommitFields(op, arg, r) ==
  /\ dag' = r.dag
  /\ state' = r.state
  /\ characters' = r.characters
  /\ variableDefs' = r.variableDefs
  /\ playing' = r.playing
  /\ paused' = r.paused
  /\ ended' = r.ended
  /\ events' = r.events
  /\ delivered' = r.delivered
  /\ UNCHANGED <<listeners, loader>>
  /\ call' = Call(op, arg, r.threw, "", request.open)
  /\ cmdLog' = IF r.entered THEN <<>> ELSE cmdLog \o CommandEvents(r.events)
  /\ visitStart' = IF r.entered THEN r.state.commandIndex ELSE visitStart
  /\ request' = IF r.entered THEN NoRequest
                ELSE IF ChoiceRequests(r.events) # <<>>
                  THEN [open |-> TRUE, nodeId |-> ChoiceRequests(r.events)[1].nodeId,
                        choices |-> ChoiceRequests(r.events)[1].choices]
                ELSE request
  /\ UNCHANGED now

\* a call that returns nothing
Commit(op, arg, r) ==
  /\ CommitFields(op, arg, r)
  /\ returned' = <<>>

LoadScript == \E script \in Scripts : Commit("loadScript", NoArg, loadScript(Self, script))

Advance == Commit("next", NoArg, next(Self))

SelectChoice ==
  \E i \in ChoiceIndices : Commit("selectChoice", IndexArg(i), selectChoice(Self, i))

Pause == Commit("pause", NoArg, pause(Self))

Resume == Commit("resume", NoArg, resume(Self))

Restart == \E entry \in RestartArgs : Commit("restart", EntryArg(entry), restart(Self, entry))

SetVar ==
  \E a \in SetVariableArgs :
    Commit("setVariable", KeyValueArg(a[1], a[2]), setVariable(Self, a[1], a[2]))

\* save() returns the snapshot and changes no field
Save ==
  /\ returned' = <<save(Self)>>
  /\ call' = Call("save", NoArg, FALSE, "", request.open)
  /\ events' = <<>>
  /\ delivered' = <<>>
  /\ UNCHANGED <<listeners, loader>>
  /\ UNCHANGED <<dag, state, characters, variableDefs, playing, paused, ended, now,
                 cmdLog, visitStart, request>>

SnapshotArg(snapshot) == [NoArg EXCEPT !.snapshot = <<snapshot>>]

\* loadState is handed the snapshot save() has just returned, or one taken
\* earlier in a playback of Story
LoadState ==
  \E snapshot \in Snapshots \cup (IF returned # <<>> THEN {returned[1]} ELSE {}) :
    Commit("loadState", SnapshotArg(snapshot), loadState(Self, snapshot))

\* the snapshot save() has just returned is loaded into a second, newly
\* constructed engine, whose getState() is then read; the first engine is
\* left alone
LoadStateOnNewEngine ==
  /\ Len(returned) = 1
  /\ returned' = <<returned[1], getState(loadState(NewEngine, returned[1]))>>
  /\ call' = Call("loadStateOnNewEngine", SnapshotArg(returned[1]), FALSE, "", request.open)
  /\ events' = <<>>
  /\ delivered' = <<>>
  /\ UNCHANGED <<listeners, loader>>
  /\ UNCHANGED <<dag, state, characters, variableDefs, playing, paused, ended, now,
                 cmdLog, visitStart, request>>

\* time passes between calls
Tick ==
  /\ now < MaxNow
  /\ now' = now + 1
  /\ call' = Call("tick", NoArg, FALSE, "", request.open)
  /\ events' = <<>>
  /\ delivered' = <<>>
  /\ UNCHANGED <<listeners, loader>>
  /\ UNCHANGED <<dag, state, characters, variableDefs, playing, paused, ended,
                 returned, cmdLog, visitStart, request>>

NextPlay ==
  \/ LoadScript
  \/ Advance
  \/ SelectChoice
  \/ Pause
  \/ Resume
  \/ Restart
  \/ SetVar
  \/ Save
  \/ LoadState
  \/ LoadStateOnNewEngine
  \/ Tick

SpecPlay == Init /\ [][NextPlay]_vars

\* ------------------------------------------------------------------------
\* The loader, followed by a playback of the script it accepted
\* ------------------------------------------------------------------------

\* a static method of the loader is called with input, before anything else
\* is: whether it rejected the input, and the problems it reported
LoaderCall(op, input, rejected, problems, threw) ==
  /\ call.op = "new"
  /\ returned' = <<[input |-> input, rejected |-> rejected, problems |-> problems]>>
  /\ call' = Call(op, NoArg, threw, "", FALSE)
  /\ events' = <<>>
  /\ delivered' = <<>>
  /\ UNCHANGED <<listeners, loader>>
  /\ UNCHANGED <<dag, state, characters, variableDefs, playing, paused, ended, now,
                 cmdLog, visitStart, request>>

Parse ==
  \E data \in Documents :
    LoaderCall("parse", data, parse(data).threw, parse(data).problems, parse(data).threw)

Validate ==
  \E script \in TypedScripts :
    LoaderCall("validate", script, ~validate(script).valid, validate(script).errors, FALSE)

BuildDAG ==
  \E script \in TypedScripts :
    LoaderCall("buildDAG", script, ~validate(script).valid, validate(script).errors,
               buildDAG(script).threw)

\* loadScript with the script parse has just returned or validate has just
\* found valid
LoadAccepted ==
  /\ call.op \in {"parse", "validate"}
  /\ ~returned[1].rejected
  /\ Commit("loadScript", NoArg, loadScript(Self, returned[1].input))

\* ------------------------------------------------------------------------
\* The engine played with subscribers
\* ------------------------------------------------------------------------

\* the callbacks handed to on(): b throws whenever it is called
Callbacks ==
  {[name |-> "a", throws |-> FALSE], [name |-> "b", throws |-> TRUE],
   [name |-> "c", throws |-> FALSE]}

\* the event kinds subscribed to
WatchedKinds == {"command", "stateChange"}

\* on(event, callback): the callback joins the Set of the event; a callback
\* already in it keeps its place
on(e, kind, cb) ==
  IF SetHas(e.listeners[kind], cb) THEN e
  ELSE [e EXCEPT !.listeners[kind] = Append(@, cb)]

\* off(event, callback)
off(e, kind, cb) ==
  [e EXCEPT !.listeners[kind] = SelectSeq(@, LAMBDA x : x # cb)]

Subscription(op, r) ==
  /\ listeners' = r.listeners
  /\ UNCHANGED loader
  /\ call' = Call(op, NoArg, FALSE, "", request.open)
  /\ returned' = <<>>
  /\ events' = <<>>
  /\ delivered' = <<>>
  /\ UNCHANGED <<dag, state, characters, variableDefs, playing, paused, ended, now,
                 cmdLog, visitStart, request>>

On == \E kind \in WatchedKinds, cb \in Callbacks : Subscription("on", on(Self, kind, cb))

Off == \E kind \in WatchedKinds, cb \in Callbacks : Subscription("off", off(Self, kind, cb))

NextEvents ==
  \/ On
  \/ Off
  \/ LoadScript
  \/ Advance
  \/ SelectChoice

SpecEvents == Init /\ [][NextEvents]_vars

\* ------------------------------------------------------------------------
\* The image loader, its callers and the loads that settle
\* ------------------------------------------------------------------------

\* the asset paths asked for
Urls == {"bg.png", "face.png"}

\* at most this many loads are started, and this many get calls made
MaxLoads == 3

MaxGets == 3

ImageStep(l) ==
  /\ loader' = l
  /\ UNCHANGED <<dag, state, characters, variableDefs, playing, paused, ended, now,
                 call, returned, events, cmdLog, visitStart, request, listeners,
                 delivered>>

ImageGet ==
  \E url \in Urls :
    /\ Len(loader.gets) < MaxGets
    /\ Len(get(loader, url, now).loads) <= MaxLoads
    /\ ImageStep(get(loader, url, now))

LoadSettles ==
  \E id \in 1..Len(loader.loads), loaded \in BOOLEAN :
    /\ loader.loads[id].status = "loading"
    /\ ImageStep(settle(loader, id, loaded, now))

ImageRelease == \E url \in Urls : ImageStep(release(loader, url))

ImageClear == ImageStep(clearLoader(loader))

NextImages ==
  \/ ImageGet
  \/ LoadSettles
  \/ ImageRelease
  \/ ImageClear
  \/ Tick

SpecImages == Init /\ [][NextImages]_vars

\* ------------------------------------------------------------------------
\* The engine played with a subscriber that calls next() from its handler
\* ------------------------------------------------------------------------

AdvanceReentering == Commit("next", NoArg, nextReentering(Self))

NextReentry ==
  \/ LoadScript
  \/ Advance
  \/ AdvanceReentering
  \/ SelectChoice

SpecReentry == Init /\ [][NextReentry]_vars

NextLoad ==
  \/ Parse
  \/ Validate
  \/ BuildDAG
  \/ LoadAccepted
  \/ Advance
  \/ SelectChoice

SpecLoad == Init /\ [][NextLoad]_vars

\* restart() without argument
RestartAtRoot == Commit("restart", EntryArg(<<>>), restart(Self, <<>>))

\* an accepted script loaded and then played, restarted, paused and resumed,
\* its variables set from outside
NextAccepted ==
  \/ Parse
  \/ Validate
  \/ LoadAccepted
  \/ Advance
  \/ SelectChoice
  \/ RestartAtRoot
  \/ Pause
  \/ Resume
  \/ SetVar

SpecAccepted == Init /\ [][NextAccepted]_vars

\* ------------------------------------------------------------------------
\* The engine and a caller that keeps, and later edits, the values the
\* engine hands out or is handed
\* ------------------------------------------------------------------------

\* the dialogue history entries of a value the caller holds, and whether they
\* are the very objects of the engine's state.dialogueHistory
Held(op, copy) == <<[op |-> op, entries |-> copy.entries, sameObjects |-> copy.sameObjects]>>

\* the call changes no field of the engine and returns a value
HandOut(op, copy) ==
  /\ returned' = Held(op, copy)
  /\ call' = Call(op, NoArg, FALSE, "", request.open)
  /\ events' = <<>>
  /\ delivered' = <<>>
  /\ UNCHANGED <<listeners, loader>>
  /\ UNCHANGED <<dag, state, characters, variableDefs, playing, paused, ended, now,
                 cmdLog, visitStart, request>>

GetState == HandOut("getState", structuredClone(getState(Self).dialogueHistory))

SaveSnapshot == HandOut("save", structuredClone(save(Self).dialogueHistory))

GetDialogueHistory == HandOut("getDialogueHistory", getDialogueHistory(Self))

\* a state-change listener keeps the payload of the event just emitted
KeepStateChange ==
  /\ Emitted(events, "stateChange")
  /\ HandOut("stateChange",
             structuredClone(EventsOfType(events, "stateChange")[1].state.dialogueHistory))

\* loadState(saved), the caller keeping saved
LoadStateKept ==
  \E snapshot \in Snapshots :
    /\ CommitFields("loadState", SnapshotArg(snapshot), loadState(Self, snapshot))
    /\ returned' = Held("loadState", structuredClone(snapshot.dialogueHistory))

\* the caller edits the text of an entry of the value it holds; an entry
\* that is the engine's own object changes in the engine's state as well
EditHeld ==
  \E i \in 1..(IF returned = <<>> THEN 0 ELSE Len(returned[1].entries)) :
    /\ returned[1].entries[i].text # "edited"
    /\ returned' = <<[returned[1] EXCEPT !.entries[i].text = "edited"]>>
    /\ state' = IF returned[1].sameObjects
                  THEN [state EXCEPT !.dialogueHistory[i].text = "edited"]
                  ELSE state
    /\ call' = Call("editHeld", IndexArg(i), FALSE, "", request.open)
    /\ events' = <<>>
    /\ delivered' = <<>>
    /\ UNCHANGED <<listeners, loader>>
    /\ UNCHANGED <<dag, characters, variableDefs, playing, paused, ended, now,
                   cmdLog, visitStart, request>>

NextAlias ==
  \/ LoadScript
  \/ Advance
  \/ SelectChoice
  \/ GetState
  \/ SaveSnapshot
  \/ GetDialogueHistory
  \/ KeepStateChange
  \/ LoadStateKept
  \/ EditHeld

SpecAlias == Init /\ [][NextAlias]_vars

\* ------------------------------------------------------------------------
\* Properties of the graph container (checked under SpecDAG)
\* ------------------------------------------------------------------------

\* the node identifiers and the edge relation of a graph, as sets
NodeSet(g) == SeqToSet(MapKeys(g.nodeMap))

EdgeSet(g) ==
  UNION {{<<g.outgoing[i].k, t>> : t \in SeqToSet(g.outgoing[i].v)} :
           i \in 1..Len(g.outgoing)}

\* every identifier a table of the graph mentions
Mentioned(g) ==
  NodeSet(g)
    \cup SeqToSet(MapKeys(g.outgoing)) \cup SeqToSet(MapKeys(g.incoming))
    \cup UNION {SeqToSet(g.outgoing[i].v) : i \in 1..Len(g.outgoing)}
    \cup UNION {SeqToSet(g.incoming[i].v) : i \in 1..Len(g.incoming)}

\* the nodes reachable from the set S along one or more edges of E
RECURSIVE ReachFrom(_, _)
ReachFrom(E, S) ==
  LET T == S \cup {e[2] : e \in {x \in E : x[1] \in S}}
  IN  IF T = S THEN S ELSE ReachFrom(E, T)

\* the descendants of n: the nodes reachable from n along one or more edges
Reachable(g, n) == ReachFrom(EdgeSet(g), {e[2] : e \in {x \in EdgeSet(g) : x[1] = n}})

\* C1: after any sequence of the public mutations, succeeding or failing, the
\* edge relation is acyclic: no node is reachable from one of its descendants
C1_Acyclic ==
  \A n \in Mentioned(dag) : \A d \in Reachable(dag, n) : n \notin Reachable(dag, d) /\ d # n

\* a third edge has just been added to a graph of three nodes
C1_Witness ==
  /\ call.op = "addEdge"
  /\ ~call.threw
  /\ Cardinality(EdgeSet(dag)) = 3

\* C2: an addEdge that is rejected (reverse path, self-loop, missing endpoint)
\* leaves the node table and both adjacency tables as they were
C2_RejectedAddEdgeChangesNothing ==
  [][(call'.op = "addEdge" /\ call'.threw)
       => /\ dag' = dag
          /\ NodeSet(dag') = NodeSet(dag)
          /\ EdgeSet(dag') = EdgeSet(dag)]_vars

\* an addEdge has just been rejected by the cycle check, the reverse path
\* having two edges
C2_Witness ==
  /\ call.op = "addEdge"
  /\ call.threw
  /\ call.message = "Adding edge creates cycle"
  /\ \E a \in Keys, b \in Keys, c \in Keys :
       /\ Cardinality({a, b, c}) = 3
       /\ EdgeSet(dag) = {<<a, b>>, <<b, c>>}

\* the place of id in a sequence of identifiers (0 when absent)
PlaceOf(order, id) ==
  IF \E i \in 1..Len(order) : order[i] = id
    THEN CHOOSE i \in 1..Len(order) : order[i] = id
    ELSE 0

\* C3: topologicalSort succeeds on every reachable graph and returns each
\* node exactly once, from before to for every edge (from, to)
C3_TopologicalSort ==
  LET r == topologicalSort(dag)
  IN  /\ ~r.threw
      /\ Len(r.order) = Len(dag.nodeMap)
      /\ \A id \in NodeSet(dag) : Cardinality({i \in 1..Len(r.order) : r.order[i] = id}) = 1
      /\ SeqToSet(r.order) = NodeSet(dag)
      /\ \A e \in EdgeSet(dag) : PlaceOf(r.order, e[1]) < PlaceOf(r.order, e[2])

\* three nodes and three edges, inserted so that the sorted order is the
\* reverse of the insertion order
C3_Witness ==
  /\ Len(dag.nodeMap) = 3
  /\ Cardinality(EdgeSet(dag)) = 3
  /\ LET order == topologicalSort(dag).order
     IN  /\ Len(order) = 3
         /\ \A i \in 1..3 : order[i] = MapKeys(dag.nodeMap)[4 - i]

\* C4: both endpoints of every edge are existing nodes and the adjacency
\* tables have entries for existing nodes only, so that once removeNode(id)
\* has returned true no table and no query mentions id
C4_EndpointsExist ==
  /\ Mentioned(dag) \subseteq NodeSet(dag)
  /\ \A e \in EdgeSet(dag) : hasNode(dag, e[1]) /\ hasNode(dag, e[2])
  /\ (call.op = "removeNode" /\ returned = <<TRUE>>) =>
        /\ call.arg.id \notin Mentioned(dag)
        /\ \A e \in SeqToSet(edges(dag)) : call.arg.id # e[1] /\ call.arg.id # e[2]
        /\ \A n \in NodeSet(dag) :
             /\ ~SetHas(successors(dag, n), call.arg.id)
             /\ ~SetHas(predecessors(dag, n), call.arg.id)

\* removeNode has just removed one of three nodes and an edge remains between
\* the other two
C4_Witness ==
  /\ call.op = "removeNode"
  /\ returned = <<TRUE>>
  /\ Len(dag.nodeMap) = 2
  /\ Cardinality(EdgeSet(dag)) = 1

\* ------------------------------------------------------------------------
\* Properties of the playback engine (checked under SpecPlay)
\* ------------------------------------------------------------------------

CurrentNodeExists == hasNode(dag, state.currentNodeId)

\* the instructions and the transition of the current node
CurrentCommands ==
  IF CurrentNodeExists THEN MapGet(dag.nodeMap, state.currentNodeId).commands ELSE <<>>

CurrentTransition ==
  IF CurrentNodeExists THEN MapGet(dag.nodeMap, state.currentNodeId).transition
  ELSE NoTransition

\* the engine's own fields are left as they were
EngineUnchanged ==
  UNCHANGED <<dag, state, characters, variableDefs, playing, paused, ended>>

\* the command events of the current visit are those of the instructions
\* visitStart .. commandIndex - 1 of the current node, one each, in order
VisitLogExact ==
  /\ Len(cmdLog) = state.commandIndex - visitStart
  /\ \A i \in 1..Len(cmdLog) :
       /\ cmdLog[i].index = visitStart + i - 1
       /\ cmdLog[i].nodeId = state.currentNodeId
       /\ visitStart + i <= Len(CurrentCommands)
       /\ cmdLog[i].command = CurrentCommands[visitStart + i]

\* C5: in a visit of a node with N instructions, every advance with an
\* instruction left emits exactly one command event, for the instruction at
\* the cursor, and no node-end event; so when the node-end event is emitted
\* the visit has emitted one command event for each of the instructions from
\* its first cursor to N - 1, in order: N events when it began at cursor 0
C5_CommandsBeforeNodeEnd ==
  [][/\ VisitLogExact'
     /\ (call'.op = "next" /\ ~ended /\ ~paused /\ CurrentNodeExists
           /\ state.commandIndex < Len(CurrentCommands))
          => /\ CommandEvents(events') =
                  <<[type |-> "command",
                     command |-> CurrentCommands[state.commandIndex + 1],
                     index |-> state.commandIndex,
                     nodeId |-> state.currentNodeId]>>
             /\ ~Emitted(events', "nodeEnd")
     /\ (call'.op = "next" /\ Emitted(events', "nodeEnd"))
          => /\ EventsOfType(events', "nodeEnd") =
                  <<[type |-> "nodeEnd", nodeId |-> state.currentNodeId]>>
             /\ CommandEvents(events') = <<>>
             /\ visitStart <= Len(CurrentCommands)
                  => Len(cmdLog) = Len(CurrentCommands) - visitStart
             /\ visitStart = 0
                  => [i \in 1..Len(cmdLog) |-> cmdLog[i].index]
                       = [i \in 1..Len(CurrentCommands) |-> i - 1]]_vars

\* node A of Story, entered at cursor 0, has emitted its two command events
\* and the advance after them has emitted the node-end event
C5_Witness ==
  /\ call.op = "next"
  /\ Emitted(events, "nodeEnd")
  /\ state.currentNodeId = "A"
  /\ Len(CurrentCommands) = 2
  /\ visitStart = 0
  /\ Len(cmdLog) = 2

\* after holds the variables of before with the effects applied in order
EffectsApplied(before, after, effects) ==
  /\ DOMAIN after = (DOMAIN before) \cup {effects[j].key : j \in 1..Len(effects)}
  /\ \A k \in DOMAIN after :
       LET js == {j \in 1..Len(effects) : effects[j].key = k}
       IN  IF js = {} THEN after[k] = before[k]
           ELSE after[k] = effects[CHOOSE j \in js : \A j2 \in js : j2 <= j].value

\* the choices of the current node that are visible under the current variables
VisibleNow == VisibleChoices(state.variables, CurrentTransition.choices)

\* the step is a selectChoice(i) made while a choice-request is pending
AnswersRequest(i) ==
  /\ request.open
  /\ call'.op = "selectChoice"
  /\ call'.arg.index = i

\* an index outside the visible list: an error event and nothing else changes
InvalidIndexRejected ==
  /\ EventsOfType(events', "error") = events'
  /\ Len(events') = 1
  /\ EngineUnchanged

C7_AsStated ==
  [][/\ \A j \in 1..Len(ChoiceRequests(events')) :
          LET offered == ChoiceRequests(events')[j].choices
          IN  [k \in 1..Len(offered) |-> offered[k].choice]
                = VisibleChoices(state'.variables, CurrentTransition.choices)
     /\ \A i \in ChoiceIndices :
          (AnswersRequest(i) /\ 0 <= i /\ i < Len(request.choices)
             /\ hasNode(dag, request.choices[i + 1].choice.targetNodeId))
            => state'.currentNodeId = request.choices[i + 1].choice.targetNodeId]_vars

\* C8 as stated: a call that emits an error event leaves current node,
\* cursor, variables, visited list, history and the two flags as they were
C8_AsStated ==
  [][Emitted(events', "error")
       => /\ state' = state
          /\ ended' = ended
          /\ paused' = paused]_vars

\* C9 as stated: selectChoice made while no choice-request is pending yields
\* an error event, no jump and no variable change
C9_AsStated ==
  [][(call'.op = "selectChoice" /\ ~request.open)
       => /\ Emitted(events', "error")
          /\ state'.currentNodeId = state.currentNodeId
          /\ state'.commandIndex = state.commandIndex
          /\ state'.variables = state.variables]_vars

\* advance while ended or paused emits nothing and changes no field; pause
\* and resume change the paused flag only
PauseFrame ==
  /\ (call'.op = "next" /\ (ended \/ paused)) => (events' = <<>> /\ EngineUnchanged)
  /\ call'.op = "pause" =>
       /\ paused'
       /\ events' = <<>>
       /\ UNCHANGED <<dag, state, characters, variableDefs, playing, ended>>
  /\ call'.op = "resume" =>
       /\ ~paused'
       /\ events' = <<>>
       /\ UNCHANGED <<dag, state, characters, variableDefs, playing, ended>>

\* C10 as stated: besides that, once paused the engine stays paused until
\* resume() is called
C10_AsStated ==
  [][/\ PauseFrame
     /\ (paused /\ ~paused') => call'.op = "resume"]_vars

\* C10, amended: advance while ended or paused is a no-op; pause and resume
\* change the paused flag only, so that after resume advance acts as if the
\* pause had not happened; once paused the engine stays paused until
\* resume(), loadScript(), a successful restart() or loadState() is called
C10_PausedAdvanceIsNoOp ==
  [][/\ PauseFrame
     /\ (paused /\ ~paused')
          => \/ call'.op \in {"resume", "loadState"}
             \/ call'.op = "loadScript" /\ ~call'.threw
             \/ call'.op = "restart" /\ ~Emitted(events', "error")]_vars

\* advance has been called on the paused engine in the middle of Story's
\* node A and has done nothing
C10_Witness ==
  /\ call.op = "next"
  /\ paused
  /\ ~ended
  /\ events = <<>>
  /\ state.currentNodeId = "A"
  /\ state.commandIndex = 1
  /\ Len(state.dialogueHistory) = 1

\* the step is an advance that emits node-end for the current node and so
\* resolves its transition
ResolvesTransition == call'.op = "next" /\ Emitted(events', "nodeEnd")

\* the graph successors of the current node, as a set
CurrentSuccessors == {pair[2] : pair \in {p \in EdgeSet(dag) : p[1] = state.currentNodeId}}

\* C11: for a node without transition, resolution depends only on the number
\* of its graph successors: exactly one makes that successor the current node
\* (cursor 0, not ended), none sets ended and emits an ending event without
\* name and category, more than one emits an error and neither jumps nor ends
C11_ImplicitTransition ==
  [][(ResolvesTransition /\ CurrentTransition.type = "none") =>
       LET n == Cardinality(CurrentSuccessors)
       IN  /\ n = 1 =>
                /\ state'.currentNodeId \in CurrentSuccessors
                /\ state'.commandIndex = 0
                /\ ~ended'
                /\ ~Emitted(events', "error")
                /\ ~Emitted(events', "ending")
           /\ n = 0 =>
                /\ ended'
                /\ EventsOfType(events', "ending") =
                     <<[type |-> "ending", endingName |-> "", endingType |-> "",
                        nodeId |-> state.currentNodeId]>>
                /\ state' = state
                /\ ~Emitted(events', "error")
           /\ n > 1 =>
                /\ Emitted(events', "error")
                /\ state' = state
                /\ ~ended'
                /\ ~Emitted(events', "ending")]_vars

\* node B of Detour, without transition and with the two successors C and D,
\* has been played to its end: an error, and B is still current
C11_Witness ==
  /\ call.op = "next"
  /\ Emitted(events, "nodeEnd")
  /\ Emitted(events, "error")
  /\ state.currentNodeId = "B"
  /\ CurrentTransition.type = "none"
  /\ CurrentSuccessors = {"C", "D"}
  /\ ~ended

\* the step is a jump to target: when target is a node of the graph it is the
\* current node afterwards, with cursor 0 and without an error; when it is
\* not, an error event is emitted and the runtime state is as before
JumpsTo(target) ==
  IF hasNode(dag, target)
    THEN /\ state'.currentNodeId = target
         /\ state'.commandIndex = 0
         /\ ~Emitted(events', "error")
    ELSE /\ Emitted(events', "error")
         /\ state' = state

\* the branches of a conditional transition whose conditions all hold under
\* the current variables
Satisfied(t) ==
  {i \in 1..Len(t.branches) :
     \A j \in 1..Len(t.branches[i].conditions) :
       evaluateCondition(state.variables, t.branches[i].conditions[j])}

\* C12: a conditional transition jumps to the target of the first branch, in
\* declared order, all of whose conditions hold under the current variables;
\* when no branch holds it jumps to the fallback if one is present, and
\* otherwise emits an error event without jumping
C12_ConditionalTransition ==
  [][(ResolvesTransition /\ CurrentTransition.type = "conditional") =>
       LET t == CurrentTransition
       IN  IF Satisfied(t) # {}
             THEN JumpsTo(t.branches[CHOOSE i \in Satisfied(t) :
                                       \A j \in Satisfied(t) : i <= j].targetNodeId)
           ELSE IF t.fallbackNodeId # ""
             THEN JumpsTo(t.fallbackNodeId)
           ELSE /\ Emitted(events', "error")
                /\ state' = state
                /\ ~ended']_vars

\* node B of Story, branching on affection >= 5 to D with fallback C, has been
\* played to its end with affection at 3: C is current
C12_Witness ==
  /\ call.op = "next"
  /\ EventsOfType(events, "nodeEnd") = <<[type |-> "nodeEnd", nodeId |-> "B"]>>
  /\ Len(variableDefs) = 2
  /\ state.variables["affection"] = Num(3)
  /\ state.currentNodeId = "C"
  /\ state.commandIndex = 0

\* current node, cursor, variables and dialogue history of a runtime state
Position(s) ==
  [currentNodeId |-> s.currentNodeId, commandIndex |-> s.commandIndex,
   variables |-> s.variables, dialogueHistory |-> s.dialogueHistory]

\* C13: save() followed by loadState(snapshot) on a newly constructed engine
\* gives that engine a runtime state whose current node, cursor, variables
\* and dialogue history are those of the saving engine at the time of save
\* (the saving engine has made no call since: any call of it discards the
\* returned snapshot)
C13_SaveLoadRoundTrip ==
  /\ call.op = "save" => Position(returned[1]) = Position(state)
  /\ call.op = "loadStateOnNewEngine" =>
       Position(returned[2]) = Position(state)

\* the engine was saved in node B of Story after its instruction, with
\* affection at 3 and two history entries, and a new engine has loaded that
\* snapshot
C13_Witness ==
  /\ call.op = "loadStateOnNewEngine"
  /\ returned[2].currentNodeId = "B"
  /\ returned[2].commandIndex = 1
  /\ returned[2].variables["affection"] = Num(3)
  /\ Len(returned[2].dialogueHistory) = 2
  /\ Position(state) = Position(returned[2])

\* what a call that ended as r has done: the events other than state-change
\* it emitted, and the position and ended flag it left
StepOf(r) ==
  [events |-> SelectSeq(r.events, LAMBDA ev : ev.type # "stateChange"),
   position |-> Position(r.state),
   ended |-> r.ended]

\* the step is a loadState that replaces the whole runtime state by the
\* snapshot and clears the ended and the paused flag
LoadStateReplaces ==
  call'.op = "loadState" =>
    /\ state' = call'.arg.snapshot[1]
    /\ ~ended'
    /\ ~paused'

\* the step is the advance that follows a loadState into a node of the loaded
\* graph: it executes the instruction at the snapshot's cursor in the
\* snapshot's node, or resolves the node's transition when the cursor is at
\* the end
AdvanceAfterLoadState ==
  (call.op = "loadState" /\ call'.op = "next" /\ CurrentNodeExists) =>
    IF state.commandIndex < Len(CurrentCommands)
      THEN /\ CommandEvents(events') =
                <<[type |-> "command",
                   command |-> CurrentCommands[state.commandIndex + 1],
                   index |-> state.commandIndex,
                   nodeId |-> state.currentNodeId]>>
           /\ state'.currentNodeId = state.currentNodeId
           /\ state'.commandIndex = state.commandIndex + 1
           /\ ~Emitted(events', "nodeEnd")
      ELSE /\ EventsOfType(events', "nodeEnd") =
                <<[type |-> "nodeEnd", nodeId |-> state.currentNodeId]>>
           /\ CommandEvents(events') = <<>>
           /\ StepOf(next(Self)) =
                StepOf(handleTransition(
                         emit(Self, [type |-> "nodeEnd", nodeId |-> state.currentNodeId]),
                         CurrentTransition))

\* the step is a loadState of the snapshot the engine itself has just saved
LoadsOwnSnapshot ==
  /\ call'.op = "loadState"
  /\ Len(returned) >= 1
  /\ call'.arg.snapshot = <<returned[1]>>

\* C14 as stated: loadState replaces the state and clears both flags, the
\* next advance acts at the snapshot's position, and that advance is the
\* step the saving engine would have taken next
C14_AsStated ==
  [][/\ LoadStateReplaces
     /\ AdvanceAfterLoadState
     /\ LoadsOwnSnapshot => StepOf(next(Self')) = StepOf(next(Self))]_vars

\* C14, amended: loadState replaces the state and clears both flags, the next
\* advance acts at the snapshot's position, and that advance is the step the
\* saving engine would have taken next had it been neither ended nor paused
C14_LoadStateResumes ==
  [][/\ LoadStateReplaces
     /\ AdvanceAfterLoadState
     /\ LoadsOwnSnapshot =>
          StepOf(next(Self')) =
            StepOf(next([Self EXCEPT !.ended = FALSE, !.paused = FALSE]))]_vars

\* with Story loaded, the snapshot taken in node B after its instruction has
\* been loaded: B is current at cursor 1 and neither flag is set
C14_Witness ==
  /\ call.op = "loadState"
  /\ call.arg.snapshot = <<state>>
  /\ Len(variableDefs) = 2
  /\ state.currentNodeId = "B"
  /\ state.commandIndex = 1
  /\ state.savedAt # <<>>
  /\ ~ended
  /\ ~paused

\* ------------------------------------------------------------------------
\* Properties of the values handed out and in (checked under SpecAlias)
\* ------------------------------------------------------------------------

\* C15 as stated: whatever value of runtime state the caller holds (from
\* getState, save, a state-change event, getDialogueHistory, or a snapshot it
\* handed to loadState), editing it does not change what getState() returns
C15_AsStated ==
  [][call'.op = "editHeld" => getState(Self') = getState(Self)]_vars

\* ------------------------------------------------------------------------
\* Properties of the loader (checked under SpecLoad)
\* ------------------------------------------------------------------------

ErrorMessages(evs) ==
  {EventsOfType(evs, "error")[i].message : i \in 1..Len(EventsOfType(evs, "error"))}

\* C16 as stated: for a script the validator accepts, building the graph
\* throws nothing, and while it is played by advance and selectChoice the
\* current node is a node of the graph and no "node not found" or "target
\* node not found" error event is emitted
C16_AsStated ==
  /\ (call.op = "buildDAG" /\ ~returned[1].rejected) => ~call.threw
  /\ call.op = "loadScript" => ~call.threw
  /\ (call.op \in {"loadScript", "next", "selectChoice"} /\ dag # EmptyDAG) =>
       /\ ~call.threw
       /\ hasNode(dag, state.currentNodeId)
       /\ ErrorMessages(events) \cap {"Node not found", "Target node not found"} = {}

\* the defects of a script, stated on the script itself
EdgesOf(script) == {script.edges[i] : i \in 1..Len(script.edges)}

DuplicateNodeIds(script) ==
  {script.nodes[i].id : i \in {k \in 1..Len(script.nodes) :
     \E j \in 1..(k - 1) : script.nodes[j].id = script.nodes[k].id}}

DuplicateVariableKeys(script) ==
  {script.variables[i].key : i \in {k \in 1..Len(script.variables) :
     \E j \in 1..(k - 1) : script.variables[j].key = script.variables[k].key}}

DuplicateCharacterIds(script) ==
  {script.characters[i].id : i \in {k \in 1..Len(script.characters) :
     \E j \in 1..(k - 1) : script.characters[j].id = script.characters[k].id}}

DanglingEdgeEnds(script) ==
  UNION {{e[1], e[2]} : e \in EdgesOf(script)} \ NodeIds(script)

\* the targets a transition names
TargetsOf(t) ==
  CASE t.type = "auto" -> {t.targetNodeId}
    [] t.type = "choice" -> {t.choices[k].targetNodeId : k \in 1..Len(t.choices)}
    [] t.type = "conditional" ->
         {t.branches[k].targetNodeId : k \in 1..Len(t.branches)}
         \cup ({t.fallbackNodeId} \ {""})
    [] OTHER -> {}

DanglingTargets(script) ==
  UNION {TargetsOf(TransitionOf(script.nodes[i])) : i \in 1..Len(script.nodes)}
    \ NodeIds(script)

\* the nodes that lie on a cycle of the edges
OnCycle(script) ==
  {e[1] : e \in {x \in EdgesOf(script) : x[1] \in ReachFrom(EdgesOf(script), {x[2]})}}

\* some reported problem comes from one of checks and quotes id
Reports(problems, checks, id) ==
  \E i \in 1..Len(problems) :
    CheckOf(problems[i]) \in checks /\ id \in Quoted(problems[i])

\* C17 as stated: a document with several independent defects is rejected by
\* parse with one failure that lists a problem for every one of them: an
\* empty required scalar, a missing list, duplicate node ids, an unknown entry
\* node, dangling edge endpoints, dangling transition targets, duplicate
\* variable keys and character ids, a cycle
C17_AsStated ==
  (call.op = "parse" /\ returned[1].input.object) =>
    LET d  == returned[1].input
        ps == returned[1].problems
    IN  /\ d.title = "" => Reports(ps, {"requiredString"}, "title")
        /\ \A key \in d.absent : Reports(ps, {"requiredArray"}, key)
        /\ \A id \in DuplicateNodeIds(d) : Reports(ps, {"duplicateNode"}, id)
        /\ d.entryNodeId \notin NodeIds(d) => Reports(ps, {"entryNode"}, d.entryNodeId)
        /\ \A id \in DanglingEdgeEnds(d) : Reports(ps, {"edgeSource", "edgeTarget"}, id)
        /\ \A id \in DanglingTargets(d) :
             Reports(ps, {"autoTarget", "choiceTarget", "branchTarget", "fallbackTarget"}, id)
        /\ \A key \in DuplicateVariableKeys(d) : Reports(ps, {"duplicateVariable"}, key)
        /\ \A id \in DuplicateCharacterIds(d) : Reports(ps, {"duplicateCharacter"}, id)
        /\ OnCycle(d) # {} => \E i \in 1..Len(ps) : CheckOf(ps[i]) = "cycle"

\* some reported problem quotes one of ids
Names(problems, ids) ==
  \E i \in 1..Len(problems) : Quoted(problems[i]) \cap ids # {}

\* C18 as stated: a script with a dangling edge endpoint, a dangling
\* transition target, a duplicate node id or a cycle among its edges is
\* rejected by the validator, and some reported problem names the offending
\* node id
C18_AsStated ==
  call.op = "validate" =>
    LET s    == returned[1].input
        ps   == returned[1].problems
        Bad(ids) == ids # {} => (returned[1].rejected /\ Names(ps, ids))
    IN  /\ Bad(DanglingEdgeEnds(s))
        /\ Bad(DanglingTargets(s))
        /\ Bad(DuplicateNodeIds(s))
        /\ Bad(OnCycle(s))

\* ------------------------------------------------------------------------
\* Properties of serialization
\* ------------------------------------------------------------------------

\* C19: serialize, reconstruction, serialize gives back the same nodes and
\* the same edges for every reachable graph: clone never fails and
\* serializes as the original does, and DAG.from never fails on the
\* serialized graph with its nodes and edges listed in any order and yields
\* a graph whose serialization has the same set of nodes (with their values)
\* and the same set of edges
SameListing(a, b) ==
  /\ SeqToSet(a.nodes) = SeqToSet(b.nodes)
  /\ SeqToSet(a.edges) = SeqToSet(b.edges)
  /\ Len(a.nodes) = Len(b.nodes)
  /\ Len(a.edges) = Len(b.edges)

CloneSerializesAlike ==
  /\ ~clone(dag).threw
  /\ serialize(clone(dag).g) = serialize(dag)

FromSerializesAlike ==
  call'.op = "from" =>
    /\ ~call'.threw
    /\ SameListing(serialize(dag'), serialize(dag))

C19_SerializeRoundTrip == [](CloneSerializesAlike) /\ [][FromSerializesAlike]_vars

\* a graph with three edges rebuilt from a listing in another order
C19_Witness ==
  /\ call.op = "from"
  /\ Cardinality(EdgeSet(dag)) = 3
  /\ returned[1].reordered

\* ------------------------------------------------------------------------
\* Properties of event delivery
\* ------------------------------------------------------------------------

\* the deliveries due for the events evs: event by event, every callback of
\* the event's kind in the order of table
Due(evs, table) ==
  Flatten([i \in 1..Len(evs) |->
             [j \in 1..Len(table[evs[i].type]) |->
                [callback |-> table[evs[i].type][j], event |-> evs[i]]]])

Received(deliveries) ==
  [i \in 1..Len(deliveries) |->
     [callback |-> deliveries[i].callback, event |-> deliveries[i].event]]

\* the engine with the same callbacks, none of which throws
Calm(e) ==
  [e EXCEPT !.listeners =
     [kind \in EventKinds |->
        [j \in 1..Len(e.listeners[kind]) |-> [e.listeners[kind][j] EXCEPT !.throws = FALSE]]]]

CalmDeliveries(deliveries) ==
  [i \in 1..Len(deliveries) |->
     [deliveries[i] EXCEPT !.callback.throws = FALSE, !.logged = FALSE]]

\* two outcomes of a call that differ at most in which callbacks threw
SameOutcome(r, calm) ==
  /\ [r EXCEPT !.listeners = NoListeners, !.delivered = <<>>]
       = [calm EXCEPT !.listeners = NoListeners, !.delivered = <<>>]
  /\ CalmDeliveries(r.delivered) = calm.delivered
  /\ ~r.threw

\* C20: every event a call emits is delivered to every callback subscribed to
\* its kind, in the order of their subscription, whether or not callbacks
\* before it threw; the call does not throw, and advance and selectChoice
\* change the fields and emit the events they would with callbacks that do
\* not throw
C20_EventDelivery ==
  /\ call.op \in {"loadScript", "next", "selectChoice"} =>
       Received(delivered) = Due(events, listeners)
  /\ call.op \in {"next", "selectChoice"} => ~call.threw
  /\ SameOutcome(next(Self), next(Calm(Self)))
  /\ \A i \in ChoiceIndices : SameOutcome(selectChoice(Self, i), selectChoice(Calm(Self), i))

\* an advance that emitted two events, the first delivered to a callback that
\* threw and then to another, the second delivered as well
C20_Witness ==
  /\ call.op = "next"
  /\ Len(events) >= 2
  /\ \E j \in 1..(Len(delivered) - 2) :
       /\ delivered[j].logged
       /\ delivered[j + 1].event = delivered[j].event
       /\ ~delivered[j + 1].logged
       /\ delivered[Len(delivered)].event # delivered[j].event

\* ------------------------------------------------------------------------
\* Properties of loadScript and restart (checked under SpecPlay)
\* ------------------------------------------------------------------------

\* the variables object that holds every declared variable at its default
\* and nothing else
DeclaredDefaults(defs) ==
  [key \in {defs[i].key : i \in 1..Len(defs)} |->
     (CHOOSE d \in {defs[i] : i \in 1..Len(defs)} : d.key = key).defaultValue]

\* the engine r is at the start of a run
FreshRun(r, defs) ==
  /\ r.state.commandIndex = 0
  /\ r.state.variables = DeclaredDefaults(defs)
  /\ r.state.visitedNodes = <<>>
  /\ r.state.dialogueHistory = <<>>
  /\ ~r.ended
  /\ ~r.paused

\* restart from the current state with a callback subscribed
RestartKeeps(entry) ==
  \A cb \in Callbacks :
    LET e == on(Self, "stateChange", cb)
        r == restart(e, entry)
    IN  ~Emitted(r.events, "error") =>
          /\ FreshRun(r, [i \in 1..Len(variableDefs) |-> variableDefs[i].v])
          /\ r.dag = dag
          /\ r.characters = characters
          /\ r.variableDefs = variableDefs
          /\ r.listeners = e.listeners

\* C21 as stated: from any state of the engine, loadScript leaves it at the
\* start of a run in the script's entry node, and so does a restart that
\* emits no error, keeping graph, character table and subscribers
C21_AsStated ==
  /\ \A script \in Scripts :
       /\ FreshRun(loadScript(Self, script), script.variables)
       /\ loadScript(Self, script).state.currentNodeId = script.entryNodeId
  /\ \A entry \in RestartArgs : RestartKeeps(entry)

\* C21, amended: from any state of the engine, a loadScript that returns
\* leaves it at the start of a run (cursor 0, exactly the declared variables
\* at their defaults, empty visited list and history, ended and paused
\* cleared) in the script's entry node, and so does a restart that emits no
\* error, keeping graph, character table and subscribers; a loadScript that
\* throws leaves every field as it was
C21_LoadScriptAndRestartReset ==
  /\ \A script \in Scripts :
       LET r == loadScript(Self, script)
       IN  IF r.threw
             THEN [r EXCEPT !.threw = FALSE] = Self
             ELSE /\ FreshRun(r, script.variables)
                  /\ r.state.currentNodeId = script.entryNodeId
  /\ \A entry \in RestartArgs : RestartKeeps(entry)

\* restart has just been called on an ended engine with visited nodes and
\* dialogue history, or loadScript while a choice was awaited
C21_Witness ==
  \/ /\ call.op = "restart"
     /\ ~Emitted(events, "error")
     /\ state.visitedNodes = <<>>
     /\ state.commandIndex = 0
     /\ call.pending
  \/ /\ call.op = "loadScript"
     /\ ~call.threw
     /\ call.pending

\* the nodes of the graph that no edge points to
InDegreeZero(g) == {n \in NodeSet(g) : ~\E edge \in EdgeSet(g) : edge[2] = n}

\* C22: restart(entry) makes the given node the current node; restart()
\* without argument on a graph with exactly one node of in-degree zero makes
\* that node the current node; restart() on a graph without such a node
\* emits an error event and leaves the runtime state and the ended and
\* paused flags as they were
C22_RestartEntry ==
  [][call'.op = "restart" =>
       /\ call'.arg.given =>
            /\ state'.currentNodeId = call'.arg.id
            /\ ~Emitted(events', "error")
       /\ (~call'.arg.given /\ Cardinality(InDegreeZero(dag)) = 1) =>
            /\ state'.currentNodeId \in InDegreeZero(dag)
            /\ ~Emitted(events', "error")
       /\ (~call'.arg.given /\ InDegreeZero(dag) = {}) =>
            /\ Emitted(events', "error")
            /\ state' = state
            /\ ended' = ended
            /\ paused' = paused]_vars

\* restart() has just been called, without argument, away from the only
\* root of the graph, and has entered that root
C22_Witness ==
  /\ call.op = "restart"
  /\ ~call.arg.given
  /\ call.pending
  /\ InDegreeZero(dag) = {state.currentNodeId}

\* restart() has just been called on a paused engine without script
C22_NoRootReached ==
  /\ call.op = "restart"
  /\ ~call.arg.given
  /\ InDegreeZero(dag) = {}
  /\ paused
  /\ Emitted(events, "error")

\* ------------------------------------------------------------------------
\* Properties of jumps and of the visited list (checked under SpecPlay)
\* ------------------------------------------------------------------------

NoDuplicates(list) == \A i, j \in 1..Len(list) : list[i] = list[j] => i = j

\* an advance or selectChoice that jumped: it emitted a state-change event
\* with the cursor at zero (the one an executed instruction emits has the
\* cursor past that instruction)
Jumped ==
  /\ call'.op \in {"next", "selectChoice"}
  /\ \E ev \in SeqToSet(EventsOfType(events', "stateChange")) : ev.state.commandIndex = 0

\* the jump recorded the departing node unless it was recorded already, and
\* began the visit of the target at the first instruction
JumpRecords ==
  Jumped =>
    /\ state'.visitedNodes =
         IF state.currentNodeId \in SeqToSet(state.visitedNodes)
           THEN state.visitedNodes
           ELSE Append(state.visitedNodes, state.currentNodeId)
    /\ state'.currentNodeId \in
         {ev.state.currentNodeId : ev \in SeqToSet(EventsOfType(events', "stateChange"))}
    /\ state'.commandIndex = 0

\* a call other than loadState adds to the visited list no node but the one
\* that was current when it was made
VisitedWereCurrent ==
  call'.op # "loadState" =>
    SeqToSet(state'.visitedNodes) \subseteq
      SeqToSet(state.visitedNodes) \cup {state.currentNodeId}

\* C23: a jump appends the departing node to the visited list unless it is
\* there already, makes the target the current node and sets the cursor to
\* zero; the visited list never holds a node twice, and a node enters it
\* only by being the current node of the call that adds it
C23_VisitedList ==
  [](NoDuplicates(state.visitedNodes)) /\ [][JumpRecords /\ VisitedWereCurrent]_vars

\* a jump has just left, for the second time since the script was loaded, a
\* node that was already in the visited list
C23_Witness ==
  /\ call.op = "next"
  /\ Emitted(events, "stateChange")
  /\ state.currentNodeId = "B"
  /\ state.visitedNodes = <<"A", "B">>

\* ------------------------------------------------------------------------
\* Properties of the awaited choice and of the ended engine (checked under
\* SpecPlay)
\* ------------------------------------------------------------------------

\* the call left current node, cursor, variables, visited list and history
\* as they were
PositionUnchanged ==
  /\ state'.currentNodeId = state.currentNodeId
  /\ state'.commandIndex = state.commandIndex
  /\ state'.variables = state.variables
  /\ state'.visitedNodes = state.visitedNodes
  /\ state'.dialogueHistory = state.dialogueHistory

\* C24 as stated: an advance made while the choice-request of the current
\* visit is unanswered leaves current node, cursor, variables, visited list
\* and history unchanged and emits no command, node-end, auto-advance or
\* ending event
C24_AsStated ==
  [][(call'.op = "next" /\ request.open) =>
       /\ PositionUnchanged
       /\ \A kind \in {"command", "nodeEnd", "autoAdvance", "ending"} :
            ~Emitted(events', kind)]_vars

\* ------------------------------------------------------------------------
\* Properties of the reachability queries (checked under SpecDAG)
\* ------------------------------------------------------------------------

\* C25: for all nodes a, b of the graph, hasPath(a, b) holds exactly when
\* a = b or b is reachable from a by one or more edges; descendants(a) lists
\* exactly the nodes reachable from a by one or more edges and ancestors(b)
\* exactly the nodes from which b is so reachable, each once; neither holds
\* the start node, and b is a descendant of a iff a is an ancestor of b
C25_Reachability ==
  \A a \in NodeSet(dag) :
    /\ SeqToSet(descendants(dag, a)) = Reachable(dag, a)
    /\ SeqToSet(ancestors(dag, a)) = {n \in NodeSet(dag) : a \in Reachable(dag, n)}
    /\ NoDuplicates(descendants(dag, a))
    /\ NoDuplicates(ancestors(dag, a))
    /\ ~SetHas(descendants(dag, a), a)
    /\ ~SetHas(ancestors(dag, a), a)
    /\ \A b \in NodeSet(dag) :
         /\ hasPath(dag, a, b) <=> (a = b \/ b \in Reachable(dag, a))
         /\ SetHas(descendants(dag, a), b) <=> SetHas(ancestors(dag, b), a)

\* a graph in which a node is reachable from another by two edges and not
\* by one
C25_Witness ==
  \E a, b \in NodeSet(dag) :
    /\ b \in Reachable(dag, a)
    /\ <<a, b>> \notin EdgeSet(dag)
    /\ SetHas(descendants(dag, a), b)

\* ------------------------------------------------------------------------
\* Properties of the image loader (checked under SpecImages)
\* ------------------------------------------------------------------------

\* C26 as stated: at any time at most one load is in flight per url, and a
\* get call made for a url while a load of it was in flight resolves with
\* the result of that load
C26_AsStated ==
  /\ \A url \in Urls : Cardinality(InFlight(loader, url)) <= 1
  /\ \A i \in 1..Len(loader.gets) :
       loader.gets[i].during # {} => loader.gets[i].load \in loader.gets[i].during

\* ------------------------------------------------------------------------
\* Properties of the playback of an accepted script (checked under SpecLoad)
\* ------------------------------------------------------------------------

\* C27 as stated: in a playback of a script the validator accepted, driven by
\* advance and selectChoice, a jump goes from the current node to one of its
\* successors in the graph, and to a node that has not been the current node
\* before
C27_AsStated ==
  [][Jumped =>
       /\ <<state.currentNodeId, state'.currentNodeId>> \in EdgeSet(dag)
       /\ state'.currentNodeId \notin
            SeqToSet(state.visitedNodes) \cup {state.currentNodeId}]_vars

\* ------------------------------------------------------------------------
\* Properties of re-entrant calls (checked under SpecReentry)
\* ------------------------------------------------------------------------

\* C28 as stated: with a subscriber that calls advance from inside its
\* handler, the command events of a visit are still those of the
\* instructions from its first cursor on, one each and in order, and the
\* cursor never exceeds the number of instructions of the current node
C28_AsStated ==
  /\ VisitLogExact
  /\ state.commandIndex <= Len(CurrentCommands)

\* ------------------------------------------------------------------------
\* Properties of the cursor (checked under SpecAccepted)
\* ------------------------------------------------------------------------

\* the number of instructions of the current node; none when the node
\* carries no data
InstructionCount ==
  IF HasNodeData(dag, state.currentNodeId) THEN Len(CurrentCommands) ELSE 0

\* C29: once a script the validator accepted is loaded, whatever advance,
\* selectChoice, restart(), pause, resume and setVariable calls follow, the
\* current node is a node of the graph and the cursor lies between 0 and
\* the number of instructions of that node
C29_CursorInRange ==
  dag # EmptyDAG =>
    /\ hasNode(dag, state.currentNodeId)
    /\ 0 <= state.commandIndex
    /\ state.commandIndex <= InstructionCount

\* an advance has just executed the last instruction of a node that was
\* entered by a jump from a node with more instructions
C29_Witness ==
  /\ call.op = "next"
  /\ state.visitedNodes # <<>>
  /\ InstructionCount = 1
  /\ state.commandIndex = 1

\* ------------------------------------------------------------------------
\* Properties of the ended engine (checked under SpecPlay)
\* ------------------------------------------------------------------------

\* the current node has an end transition, or no transition and no successor
AtEndNode ==
  \/ CurrentTransition.type = "end"
  \/ CurrentTransition = NoTransition /\ CurrentSuccessors = {}

\* an advance or selectChoice on an ended engine changes nothing of the
\* position and emits no playback event
EndedIsInert ==
  (ended /\ call'.op \in {"next", "selectChoice"}) =>
    /\ PositionUnchanged
    /\ ended'
    /\ \A kind \in {"command", "nodeEnd", "choiceRequest", "autoAdvance", "ending"} :
         ~Emitted(events', kind)

EndedClearedByReset ==
  (ended /\ ~ended') => call'.op \in {"loadScript", "restart", "loadState"}

\* C30: while the ended flag is set the current node has an end transition
\* or neither transition nor successor; advance and selectChoice then change
\* neither current node, cursor, variables, visited list nor history and
\* emit no command, node-end, choice-request, auto-advance or ending event;
\* only loadScript, restart and loadState clear the flag
C30_EndedIsTerminal ==
  [](ended => AtEndNode) /\ [][EndedIsInert /\ EndedClearedByReset]_vars

\* selectChoice has just been called on an engine that ended after a jump
C30_Witness ==
  /\ ended
  /\ call.op = "selectChoice"
  /\ Emitted(events, "error")
  /\ state.visitedNodes # <<>>

\* ------------------------------------------------------------------------
\* Properties of the validator's cycle check (checked under SpecLoad)
\* ------------------------------------------------------------------------

CycleReported(problems) == \E i \in 1..Len(problems) : CheckOf(problems[i]) = "cycle"

\* C31 as stated: the validator reports the cycle problem exactly when the
\* script's edges contain a directed cycle; a script whose defects are only
\* duplicate node ids, dangling edge endpoints, dangling transition targets
\* or an unknown entry node gets no cycle problem
C31_AsStated ==
  call.op = "validate" =>
    (CycleReported(returned[1].problems) <=> OnCycle(returned[1].input) # {})

\* ------------------------------------------------------------------------
\* Properties of the three tables of the graph (checked under SpecDAG)
\* ------------------------------------------------------------------------

\* the sum of Degree(id) over the ids listed
RECURSIVE DegreeSum(_, _, _)
DegreeSum(g, ids, incomingSide) ==
  IF ids = <<>> THEN 0
  ELSE (IF incomingSide THEN inDegree(g, Head(ids)) ELSE outDegree(g, Head(ids)))
         + DegreeSum(g, Tail(ids), incomingSide)

\* b in successors(a) iff a in predecessors(b) iff hasEdge(a, b)
TablesMirror ==
  \A a \in NodeSet(dag), b \in NodeSet(dag) :
    /\ SetHas(successors(dag, a), b) <=> SetHas(predecessors(dag, b), a)
    /\ SetHas(successors(dag, a), b) <=> hasEdge(dag, a, b)

\* the adjacency tables have entries for the nodes and mention no other id
TablesCoverNodes ==
  /\ SeqToSet(MapKeys(dag.outgoing)) = NodeSet(dag)
  /\ SeqToSet(MapKeys(dag.incoming)) = NodeSet(dag)
  /\ Len(dag.outgoing) = Len(dag.nodeMap)
  /\ Len(dag.incoming) = Len(dag.nodeMap)
  /\ Mentioned(dag) = NodeSet(dag)
  /\ \A a \in Keys, b \in Keys : hasEdge(dag, a, b) => {a, b} \subseteq NodeSet(dag)

DegreesAddUp ==
  /\ DegreeSum(dag, MapKeys(dag.nodeMap), TRUE) = edgeSize(dag)
  /\ DegreeSum(dag, MapKeys(dag.nodeMap), FALSE) = edgeSize(dag)
  /\ edgeSize(dag) = Cardinality(EdgeSet(dag))

\* upsertNode and setNodeValue leave every edge, and on an existing node both
\* adjacency tables, as they were
ValueWritesKeepEdges ==
  (call'.op \in {"upsertNode", "setNodeValue"}) =>
    /\ EdgeSet(dag') = EdgeSet(dag)
    /\ NodeSet(dag') = NodeSet(dag) =>
         (dag'.outgoing = dag.outgoing /\ dag'.incoming = dag.incoming)

\* C32: in every reachable graph the two adjacency tables mirror each other
\* and hasEdge, the nodes with adjacency entries are exactly the nodes, the
\* in-degrees and the out-degrees both add up to edgeSize, and upsertNode and
\* setNodeValue on an existing node change no edge
C32_TablesMirror ==
  [](TablesMirror /\ TablesCoverNodes /\ DegreesAddUp) /\ [][ValueWritesKeepEdges]_vars

\* upsertNode has just been called on one of three nodes joined by two edges
C32_Witness ==
  /\ call.op = "upsertNode"
  /\ Len(dag.nodeMap) = 3
  /\ Cardinality(EdgeSet(dag)) = 2
  /\ edgeSize(dag) = 2

=============================================================================
